---- MODULE Spec2Model ----
(***************************************************************************)
(* Drew's Movie Dashboard: the metadata cache, the enrichment effect of    *)
(* the versions page, and the search / versions / download flow.           *)
(*                                                                         *)
(* Modelled snapshot: src/unnamed/part_012 (App), routes/SearchPage.tsx,   *)
(* routes/VersionsPage.tsx, routes/DownloadPage.tsx, api.ts and the        *)
(* TypeScript movieCache (src/unnamed/part_005, lines 58-80), web build    *)
(* (isEmbeddedApp = false), PTP search mode.                               *)
(*                                                                         *)
(* React semantics used: one action is one event (a user gesture or the    *)
(* settling of one promise) together with the render it schedules and the  *)
(* effects of that render: cleanups of the effects whose dependencies      *)
(* changed first, then the effects in declaration order.  State of an      *)
(* unmounted component is discarded: it is kept at its useState initial    *)
(* value.  An await is where an action ends; its continuation is the       *)
(* response action of the request left in flight.                          *)
(***************************************************************************)
EXTENDS Integers, Sequences, FiniteSets, Bags, TLC

(***************************************************************************)
(* JavaScript values.  Strings are TLA+ strings, undefined/null is Undef,  *)
(* an optional non-string value is a sequence of length 0 or 1.            *)
(***************************************************************************)
Undef == "undefined"

\* JS truthiness of a string-or-undefined value
Truthy(v) == v # Undef /\ v # ""

\* a ?? b
Coalesce(a, b) == IF a = Undef THEN b ELSE a

\* a || b
Or(a, b) == IF Truthy(a) THEN a ELSE b

\* String.prototype.trim on the strings of this model: " " and " tok " are the
\* only ones with leading or trailing white space
Trim(s) == IF s = " " THEN "" ELSE IF s = " tok " THEN "tok" ELSE s

(***************************************************************************)
(* Bounds and input domains                                                *)
(***************************************************************************)
\* requests that may be in flight at once, all kinds together
MaxInflight == 3

\* catalog identifiers, as String(movie.id)
Ids == {"1", "2"}

TitleOf(id) == IF id = "1" THEN "Alien" ELSE "Brazil"

Tok == "tok"

\* what the user may have typed in the token prompt when saving
TokenInputs == {"", " ", " tok "}

\* what the user may type in the search box
QueryInputs == {"", "q"}

(***************************************************************************)
(* Metadata cache (lib/movieCache)                                         *)
(***************************************************************************)
createEmptyCredits == [writers |-> <<>>, directors |-> <<>>, stars |-> <<>>]

\* `movieCache.get(cacheKey) ?? {}`: every field undefined
EmptyEntry ==
  [posterUrl |-> Undef, title |-> Undef, year |-> Undef, runtime |-> Undef,
   imdbId |-> Undef, synopsis |-> Undef, credits |-> <<>>,
   imdbDetailsFetched |-> FALSE]

\* a Map that forgets its other keys on set
MapSet_forgetful(cache, key, entry) == [k \in {key} |-> entry]

\* Map.prototype.set
MapSet(cache, key, entry) ==
  [k \in DOMAIN cache \cup {key} |-> IF k = key THEN entry ELSE cache[k]]

\* movieCache.get(key) ?? {}
GetOrEmpty(cache, key) == IF key \in DOMAIN cache THEN cache[key] ELSE EmptyEntry

\* the snapshot lib/movieCache.js of the same function: rebuilds the entry
\* from five fields, so credits, runtime and imdbDetailsFetched are dropped
rememberMovie_js(cache, movie) ==
  IF movie.id = Undef THEN cache
  ELSE LET existing == GetOrEmpty(cache, movie.id)
       IN MapSet(cache, movie.id,
            [posterUrl |-> Coalesce(movie.posterUrl, existing.posterUrl),
             title |-> Coalesce(movie.title, existing.title),
             year |-> Coalesce(movie.year, existing.year),
             runtime |-> Undef,
             imdbId |-> Or(movie.imdbId, existing.imdbId),
             synopsis |-> existing.synopsis,
             credits |-> <<>>,
             imdbDetailsFetched |-> FALSE])

\* the forEach callback of rememberMovies
rememberMovie(cache, movie) ==
  IF movie.id = Undef THEN cache
  ELSE LET cacheKey == movie.id
           existing == GetOrEmpty(cache, cacheKey)
           nextEntry ==
             [posterUrl |-> Coalesce(movie.posterUrl, existing.posterUrl),
              title |-> Coalesce(movie.title, existing.title),
              year |-> Coalesce(movie.year, existing.year),
              runtime |-> Coalesce(movie.runtime, existing.runtime),
              imdbId |-> Coalesce(movie.imdbId, existing.imdbId),
              synopsis |-> existing.synopsis,
              credits |-> existing.credits,
              imdbDetailsFetched |-> existing.imdbDetailsFetched]
       IN MapSet(cache, cacheKey, nextEntry)

RECURSIVE rememberMovies(_, _)
rememberMovies(cache, movies) ==
  IF movies = <<>> THEN cache
  ELSE rememberMovies(rememberMovie(cache, Head(movies)), Tail(movies))

\* keys of the entries a rememberMovies call replaces with new objects
Remembered(movies) ==
  {movies[i].id : i \in DOMAIN movies} \ {Undef}

(***************************************************************************)
(* What the catalog boundary may answer                                    *)
(***************************************************************************)
Summary(id, title, posterUrl, year, runtime, imdbId) ==
  [id |-> id, title |-> title, posterUrl |-> posterUrl, year |-> year,
   runtime |-> runtime, imdbId |-> imdbId]

Full(id) == Summary(id, TitleOf(id), "poster", "1985", Undef, "tt" \o id)
NoImdb(id) == Summary(id, TitleOf(id), "poster", "1985", Undef, Undef)
Blank(id) == Summary(id, "", "", "", "", "")
Bare(id) == Summary(id, Undef, Undef, Undef, Undef, Undef)
Nameless == Summary(Undef, "Nameless", Undef, Undef, Undef, Undef)

\* the `movies` array of a search or weekly-picks response
MovieLists ==
  { <<>>, <<Full("1")>>, <<Full("1"), NoImdb("2")>>, <<Blank("1")>>,
    <<Bare("2"), Nameless>>, <<Full("2")>> }

\* the `versions` array of a version listing for a title: version ids
VersionLists(id) ==
  IF id = "1" THEN { <<>>, <<11>> }
  ELSE IF id = "2" THEN { <<>>, <<21>> }
  ELSE { <<>> }

AllVersionLists == UNION {VersionLists(id) : id \in Ids}

\* a failed call: a non-2xx response with its body text, or a rejected fetch
Failures ==
  { [kind |-> "http", status |-> 500, body |-> "db unavailable"],
    [kind |-> "http", status |-> 500, body |-> ""],
    [kind |-> "network", status |-> 0, body |-> "Failed to fetch"] }

\* new Error(text || `<operation> failed (<status>)`), or the fetch's own
\* rejection
ThrownMessage(operation, failure) ==
  IF failure.kind = "http"
  THEN Or(failure.body, operation \o " failed (" \o ToString(failure.status) \o ")")
  ELSE failure.body

\* lib/errors toErrorMessage, on an Error
toErrorMessage(message) == IF message # "" THEN message ELSE "{}"

(***************************************************************************)
(* What the metadata boundary may answer, and how fetchImdbDetails reads   *)
(* it (routes/VersionsPage.tsx, inside the enrichment effect)              *)
(***************************************************************************)
\* an entry of a credit list: a string, or an object with `id` and `name`
Named(text) == [kind |-> "string", id |-> Undef, name |-> text]
Person(id, name) == [kind |-> "object", id |-> id, name |-> name]

ImdbDetails(synopsis, plot, runtimeSeconds, writers, directors, stars, cast) ==
  [synopsis |-> synopsis, plot |-> plot, runtimeSeconds |-> runtimeSeconds,
   writers |-> writers, directors |-> directors, stars |-> stars, cast |-> cast]

NoDetails == ImdbDetails(Undef, Undef, <<>>, <<>>, <<>>, <<>>, <<>>)

ImdbResponses ==
  { NoDetails,
    ImdbDetails(" ", "In space", <<7020>>, <<Named("O'Bannon")>>,
                <<Named("Scott")>>, <<Named("Weaver")>>,
                <<Named("Weaver"), Named("Skerritt")>>),
    ImdbDetails("A synopsis", "A plot", <<>>, <<>>, <<>>, <<>>, <<>>),
    ImdbDetails(Undef, Undef, <<>>, <<>>, <<>>, <<>>, <<Named("Pryce"), Named(" ")>>),
    ImdbDetails(Undef, Undef, <<0>>, <<>>, <<>>, <<>>, <<>>) }

\* toSynopsisString on a string or undefined
toSynopsisString(value) == IF ~Truthy(value) THEN "" ELSE Trim(value)

\* toRuntimeString on an optional number of seconds (an integer here)
toRuntimeString(value) ==
  IF value = <<>> THEN ""
  ELSE LET totalSeconds == IF value[1] < 0 THEN 0 ELSE value[1]
           totalMinutes == totalSeconds \div 60
           hours == totalMinutes \div 60
           minutes == totalMinutes % 60
       IN IF hours > 0 /\ minutes > 0
          THEN ToString(hours) \o "h " \o ToString(minutes) \o "m"
          ELSE IF hours > 0 THEN ToString(hours) \o "h"
          ELSE IF minutes > 0 THEN ToString(minutes) \o "m"
          ELSE "0m"

\* typeof value === 'string' && value.trim().length > 0
isNonEmptyString(v) == v # Undef /\ Trim(v) # ""

\* normalizePerson on a string or an object entry: zero or one person
normalizePerson(entry) ==
  IF entry.kind = "string"
  THEN LET text == Trim(entry.name)
       IN IF text = "" THEN <<>>
          ELSE <<[id |-> text, name |-> text, image |-> ""]>>
  ELSE LET nameCandidate == IF isNonEmptyString(entry.name)
                            THEN Trim(entry.name) ELSE ""
           idCandidate == IF isNonEmptyString(entry.id) THEN entry.id
                          ELSE nameCandidate
       IN IF nameCandidate = "" THEN <<>>
          ELSE <<[id |-> idCandidate, name |-> nameCandidate, image |-> ""]>>

\* toPeopleArray on an array of entries
RECURSIVE toPeopleArray(_)
toPeopleArray(value) ==
  IF value = <<>> THEN <<>>
  ELSE normalizePerson(Head(value)) \o toPeopleArray(Tail(value))

\* mergePeople has not been called yet
NotMerged == <<[id |-> "", name |-> "", image |-> ""]>>

\* the inner forEach without `seen.has(key)`
RECURSIVE SeenAfter_all(_, _)
SeenAfter_all(seen, people) ==
  IF people = <<>> THEN seen
  ELSE SeenAfter_all(IF Head(people).id = "" THEN seen
                     ELSE Append(seen, Head(people)), Tail(people))

\* the inner forEach of mergePeople: `seen` is the Map in insertion order
RECURSIVE SeenAfter(_, _)
SeenAfter(seen, people) ==
  IF people = <<>> THEN seen
  ELSE LET person == Head(people)
           key == person.id
       IN SeenAfter(IF key = "" \/ \E i \in DOMAIN seen : seen[i].id = key
                    THEN seen ELSE Append(seen, person),
                    Tail(people))

RECURSIVE MergeSources(_, _)
MergeSources(seen, sources) ==
  IF sources = <<>> THEN seen
  ELSE MergeSources(SeenAfter(seen, toPeopleArray(Head(sources))), Tail(sources))

\* mergePeople(...sources)
mergePeople(sources) == MergeSources(<<>>, sources)

\* first non-empty of the synopsis candidates
nextSynopsis(data) ==
  Or(toSynopsisString(data.synopsis), Or(toSynopsisString(data.plot), ""))

nextRuntime(data) == Or(toRuntimeString(data.runtimeSeconds), "")

nextCredits(data) ==
  [writers |-> mergePeople(<<data.writers>>),
   directors |-> mergePeople(<<data.directors>>),
   stars |-> mergePeople(<<data.stars, data.cast>>)]

\* `cachedMovie.credits ?? createEmptyCredits()`
CreditsOrEmpty(credits) == IF credits = <<>> THEN createEmptyCredits ELSE credits[1]

hasCredits(credits) ==
  credits.writers # <<>> \/ credits.directors # <<>> \/ credits.stars # <<>>

\* a merge that takes the response's credits whole as soon as it has any
mergedCredits_whole(next, cachedCredits) ==
  IF hasCredits(next) THEN next ELSE cachedCredits

\* mergedCredits of fetchImdbDetails
mergedCredits(next, cachedCredits) ==
  [writers |-> IF next.writers # <<>> THEN next.writers ELSE cachedCredits.writers,
   directors |-> IF next.directors # <<>> THEN next.directors ELSE cachedCredits.directors,
   stars |-> IF next.stars # <<>> THEN next.stars ELSE cachedCredits.stars]

\* nextEntry without `imdbDetailsFetched: true`
nextEntry_unflagged(existing, req, data) ==
  [existing EXCEPT
     !.imdbId = Coalesce(existing.imdbId, req.imdbId),
     !.runtime = Or(nextRuntime(data), Or(existing.runtime, Or(req.cachedRuntime, ""))),
     !.synopsis = Or(Trim(nextSynopsis(data)),
                     Or(existing.synopsis, Or(req.cachedSynopsis, ""))),
     !.credits = <<mergedCredits(nextCredits(data), req.cachedCredits)>>]

\* nextEntry of fetchImdbDetails; req holds what the effect closure captured
nextEntry(existing, req, data) ==
  [existing EXCEPT
     !.imdbId = Coalesce(existing.imdbId, req.imdbId),
     !.runtime = Or(nextRuntime(data), Or(existing.runtime, Or(req.cachedRuntime, ""))),
     !.synopsis = Or(Trim(nextSynopsis(data)),
                     Or(existing.synopsis, Or(req.cachedSynopsis, ""))),
     !.credits = <<mergedCredits(nextCredits(data), req.cachedCredits)>>,
     !.imdbDetailsFetched = TRUE]

(***************************************************************************)
(* State                                                                   *)
(***************************************************************************)
(* lib/imdb.ts: formatImdbId.  A JavaScript value is a record of its typeof *)
(* (null apart), the characters of a string, a number in tenths, and the   *)
(* number's form: "finite", "NaN", "Infinity" or "1e21" (finite, and       *)
(* printed by toString with an exponent)                                   *)
(***************************************************************************)
JsValue(type, chars, tenths, form) ==
  [type |-> type, chars |-> chars, tenths |-> tenths, form |-> form]

JsNull == JsValue("null", <<>>, 0, "")
JsUndefined == JsValue("undefined", <<>>, 0, "")
JsTrue == JsValue("boolean", <<>>, 0, "")
JsObject == JsValue("object", <<>>, 0, "")
JsString(chars) == JsValue("string", chars, 0, "")
JsNumber(tenths) == JsValue("number", <<>>, tenths, "finite")
JsNaN == JsValue("number", <<>>, 0, "NaN")
JsInfinity == JsValue("number", <<>>, 0, "Infinity")
Js1e21 == JsValue("number", <<>>, 0, "1e21")

\* formatImdbId has not returned yet
NotCalled == JsValue("not called", <<>>, 0, "")

Digits == {"0", "1", "2", "3", "4", "5", "6", "7", "8", "9"}

\* Number.prototype.toString of a non-negative integer below 1e21
RECURSIVE IntToString(_)
IntToString(n) ==
  LET last == <<"0", "1", "2", "3", "4", "5", "6", "7", "8", "9">>[(n % 10) + 1]
  IN IF n < 10 THEN <<last>> ELSE IntToString(n \div 10) \o <<last>>

\* Math.abs(Math.trunc(value)).toString()
AbsTruncToString(number) ==
  IF number.form = "1e21" THEN <<"1", "e", "+", "2", "1">>
  ELSE IntToString((IF number.tenths < 0 THEN -number.tenths ELSE number.tenths)
                     \div 10)

\* String.prototype.trim of a string of characters
RECURSIVE TrimStart(_)
TrimStart(chars) ==
  IF chars # <<>> /\ Head(chars) = " " THEN TrimStart(Tail(chars)) ELSE chars

RECURSIVE TrimEnd(_)
TrimEnd(chars) ==
  IF chars # <<>> /\ chars[Len(chars)] = " "
  THEN TrimEnd(SubSeq(chars, 1, Len(chars) - 1)) ELSE chars

TrimChars(chars) == TrimEnd(TrimStart(chars))

\* trimmed.replace(/[^0-9]/g, '')
IsDigit(c) == c \in Digits
OnlyDigits(chars) == SelectSeq(chars, IsDigit)

\* String.prototype.padStart(length, '0')
RECURSIVE padStart(_, _)
padStart(chars, length) ==
  IF Len(chars) >= length THEN chars ELSE padStart(<<"0">> \o chars, length)

\* `if (!digits) return null;` and the two lines after it
Tagged(digits) ==
  IF digits = <<>> THEN JsNull
  ELSE JsString(<<"t", "t">> \o padStart(digits, 7))

formatImdbId(v) ==
  IF v.type \in {"null", "undefined"} THEN JsNull
  ELSE IF v.type = "number" /\ v.form \in {"finite", "1e21"}
  THEN Tagged(AbsTruncToString(v))
  ELSE IF v.type = "string"
  THEN LET trimmed == TrimChars(v.chars)
       IN IF trimmed = <<>> THEN JsString(<<>>) ELSE Tagged(OnlyDigits(trimmed))
  ELSE JsNull

(***************************************************************************)
VARIABLES
  token,               \* useLocalToken: the token held by App
  error,               \* App: the shared error slot
  topMovies,           \* App
  topMoviesRequested,  \* App: topMoviesRequested.current
  route,               \* the router's location
  movieCache,          \* lib/movieCache: the Map
  sp,                  \* SearchPage state
  vp,                  \* VersionsPage state
  searchReqs,          \* searchMovies calls of the search effect, in flight
  pickReqs,            \* searchMovies calls of handleTopMovie, in flight
  topReqs,             \* getTopMovies calls in flight
  versionReqs,         \* getVersions calls in flight
  downloadReqs,        \* downloadMovie calls in flight
  imdbReqs,            \* getImdbDetails calls of the enrichment effect, in flight
  lastEvent,           \* history: the handler or continuation that ran last
  searched,            \* history: a searchMovies call has been issued
  tokenStore,          \* localStorage 'token': Undef when absent
  gateError,           \* TokenGate state: error
  formatInput,         \* formatImdbId: its argument `value`
  formatted,           \* formatImdbId: what it returned for it
  tvResults,           \* SearchPage state: the imdb ids of hdbitsResults / btnResults
  posterFetchThreshold, \* SearchPage state
  posterCache,         \* SearchPage state: key -> status
  pendingPosterIds,    \* SearchPage ref
  posterReqs,          \* getImdbDetails calls of the poster effect, awaited
  detailReqs,          \* getImdbDetails calls of the enrichment effect, by id
  creditSource,        \* mergePeople: a source
  mergedOnce,          \* mergePeople(source)
  mergedTwice,         \* mergePeople(source, source)
  themeStore,          \* localStorage 'theme': Undef when absent
  theme,               \* App state: Undef before App is rendered
  isManualTheme,       \* App state
  prefersDark,         \* matchMedia('(prefers-color-scheme: dark)').matches
  mergeCached,         \* fetchImdbDetails: the cached record its effect closed over
  mergeData,           \* fetchImdbDetails: the response it was given
  mergeStored,         \* fetchImdbDetails: the record it stored, none before
  failedCalls,         \* history: the calls that failed, error shown, since the user last acted
  tv,                  \* SearchPage state: pendingTorrent, confirmOpen, downloadingKey
  tvDownloadReqs       \* downloadTvShow and downloadBtnTorrent calls in flight

vars ==
  <<token, error, topMovies, topMoviesRequested, route, movieCache, sp, vp,
    searchReqs, pickReqs, topReqs, versionReqs, downloadReqs, imdbReqs,
    lastEvent, searched, tokenStore, gateError, formatInput, formatted,
    tvResults, posterFetchThreshold, posterCache, pendingPosterIds, posterReqs,
    detailReqs, creditSource, mergedOnce, mergedTwice, themeStore, theme,
    isManualTheme, prefersDark, mergeCached, mergeData, mergeStored,
    failedCalls, tv, tvDownloadReqs>>

\* the merge of fetchImdbDetails taken alone
mergeVars == <<mergeCached, mergeData, mergeStored>>

\* the variables of the parts taken alone that came last
\* the confirm dialog of the TV results
tvVars == <<tv, tvDownloadReqs>>

extraVars == <<mergeVars, tvVars>>

\* what the pages and their handlers never touch
libVars ==
  <<formatInput, formatted, tvResults, posterFetchThreshold, posterCache,
    pendingPosterIds, posterReqs, detailReqs, creditSource, mergedOnce,
    mergedTwice, themeStore, theme, isManualTheme, prefersDark, extraVars>>

(***************************************************************************)
(* Router                                                                  *)
(***************************************************************************)
\* "/" and "/search": <SearchPage>, queryParam = searchParams.get('query') || ''
SearchRoute(query) ==
  [page |-> "search", movieId |-> Undef, title |-> "", query |-> query]

\* "/torrents/:movieId": <VersionsPage>, titleParam = get('title') || ''
VersionsRoute(movieId, title) ==
  [page |-> "versions", movieId |-> movieId, title |-> title, query |-> ""]

\* "/download": <DownloadPage>, title = get('title')
DownloadRoute(title) ==
  [page |-> "download", movieId |-> Undef, title |-> title, query |-> ""]

\* locations the user can reach with the browser (back, forward, a typed URL)
Routes ==
  {SearchRoute(q) : q \in QueryInputs}
    \cup {VersionsRoute(id, t) : id \in Ids, t \in {"", "Alien", "Brazil"}}
    \cup {DownloadRoute("")}

\* App without its `if (!token) return <TokenGate ... />`
Mounted_ungated(tok, r) == r.page

\* App renders only the TokenGate while no token is held
Mounted(tok, r) == IF tok = "" THEN "gate" ELSE r.page

(***************************************************************************)
(* Requests in flight: bags of the closures awaiting a response            *)
(***************************************************************************)
RECURSIVE CopiesOf(_, _)
CopiesOf(S, B) ==
  IF S = {} THEN 0
  ELSE LET r == CHOOSE x \in S : TRUE IN CopiesIn(r, B) + CopiesOf(S \ {r}, B)

One(r) == SetToBag({r})

\* an effect cleanup: `cancelled = true` in every closure of the effect
CancelAll(B) ==
  LET S == BagToSet(B)
      Cancelled(r) == [r EXCEPT !.cancelled = TRUE]
  IN [t \in {Cancelled(r) : r \in S} |->
        CopiesOf({r \in S : Cancelled(r) = t}, B)]

\* the component went away: its setState calls no longer do anything
OrphanAll(B) ==
  LET S == BagToSet(B)
      Orphaned(r) == [r EXCEPT !.orphaned = TRUE]
  IN [t \in {Orphaned(r) : r \in S} |->
        CopiesOf({r \in S : Orphaned(r) = t}, B)]

Live(B) == {r \in BagToSet(B) : ~r.cancelled}

Inflight ==
  BagCardinality(searchReqs) + BagCardinality(pickReqs) + BagCardinality(topReqs)
    + BagCardinality(versionReqs) + BagCardinality(downloadReqs)
    + BagCardinality(imdbReqs)

(***************************************************************************)
(* Component state                                                         *)
(***************************************************************************)
\* SearchPage's useState initial values
SearchPageInit(queryParam) ==
  [inputValue |-> queryParam, movies |-> <<>>, loading |-> FALSE,
   hasSearched |-> queryParam # ""]

\* VersionsPage's useState initial values
VersionsPageInit ==
  [versions |-> <<>>, loading |-> TRUE, isSubmitting |-> FALSE,
   pendingVersion |-> <<>>, synopsis |-> "", credits |-> createEmptyCredits,
   imdbLoading |-> FALSE, runtime |-> ""]

\* the state an event handler starts from and edits; `touched` is the set of
\* cache keys the handler has set to new objects
\* what ran, for which title, whether its closure had been cancelled, and the
\* failure it was given
Event(op, movieId, cancelled, failure) ==
  [op |-> op, movieId |-> movieId, cancelled |-> cancelled, failure |-> failure,
   input |-> Undef]

Cur ==
  [token |-> token, error |-> error, topMovies |-> topMovies,
   topMoviesRequested |-> topMoviesRequested, route |-> route,
   movieCache |-> movieCache, sp |-> sp, vp |-> vp, searchReqs |-> searchReqs,
   pickReqs |-> pickReqs, topReqs |-> topReqs, versionReqs |-> versionReqs,
   downloadReqs |-> downloadReqs, imdbReqs |-> imdbReqs, touched |-> {},
   event |-> lastEvent, searched |-> searched, tokenStore |-> tokenStore,
   gateError |-> gateError, failed |-> failedCalls]

\* the state a handler starts from, the handler noted as the one running
On(op, movieId, cancelled, failure) ==
  [Cur EXCEPT !.event = Event(op, movieId, cancelled, failure)]

(***************************************************************************)
(* SearchPage effects                                                      *)
(***************************************************************************)
\* one run of the search effect and of the setInputValue(queryParam) effect,
\* after the cleanup of the run before; s0 is the page's state
SearchRun(h, s0) ==
  LET queryParam == h.route.query
      s1 == [s0 EXCEPT !.inputValue = queryParam]
  IN IF Trim(queryParam) = ""
     THEN [h EXCEPT !.sp = [s1 EXCEPT !.movies = <<>>, !.hasSearched = FALSE,
                                      !.loading = FALSE],
                    !.searchReqs = CancelAll(@)]
     ELSE [h EXCEPT !.sp = [s1 EXCEPT !.loading = TRUE, !.movies = <<>>],
                    !.error = "",
                    !.searched = TRUE,
                    !.searchReqs = CancelAll(@)
                       (+) One([query |-> Trim(queryParam), cancelled |-> FALSE])]

\* the search effect, deps [queryParam, searchMode, setError, isEmbeddedApp],
\* and the setInputValue(queryParam) effect; h is the state after the handler
SearchEffects(h) ==
  LET was == Mounted(token, route) = "search"
      is == Mounted(h.token, h.route) = "search"
      queryParam == h.route.query
      s0 == IF was THEN h.sp ELSE SearchPageInit(queryParam)
  IN IF ~is
     THEN [h EXCEPT !.sp = SearchPageInit(""), !.searchReqs = CancelAll(@)]
     ELSE IF was /\ route.query = queryParam THEN h
     ELSE SearchRun(h, s0)

(***************************************************************************)
(* VersionsPage effects                                                    *)
(***************************************************************************)
\* the effect without its `if (!imdbIdRaw) return;`
HasImdbId_unchecked(entry) == TRUE

\* `if (!imdbIdRaw) return;`
HasImdbId(entry) == Truthy(entry.imdbId)

\* the effect without its sufficiency guard
CacheSufficient_unchecked(entry) == FALSE

\* `cachedMovie.imdbDetailsFetched && (cachedSynopsis || hasCachedCredits)`
CacheSufficient(entry) ==
  entry.imdbDetailsFetched
    /\ (Truthy(entry.synopsis) \/ hasCredits(CreditsOrEmpty(entry.credits)))

\* the enrichment effect gets as far as fetchImdbDetails()
StartsFetch(cache, movieId) ==
  /\ movieId \in DOMAIN cache
  /\ HasImdbId(cache[movieId])
  /\ ~CacheSufficient(cache[movieId])

\* the closure of one run of the enrichment effect
ImdbRequest(cache, movieId) ==
  [movieId |-> movieId, imdbId |-> cache[movieId].imdbId, cancelled |-> FALSE,
   cachedSynopsis |-> cache[movieId].synopsis,
   cachedCredits |-> CreditsOrEmpty(cache[movieId].credits),
   cachedRuntime |-> cache[movieId].runtime]

\* the effect without a cleanup
EnrichmentCleanup_missing(B) == B

\* the cleanup of the enrichment effect
EnrichmentCleanup(B) == CancelAll(B)

\* a cache-sync effect without its setImdbLoading(false)
CacheSync_keepsLoading(v, cache, movieId) ==
  IF movieId \in DOMAIN cache
  THEN [v EXCEPT !.synopsis = Or(cache[movieId].synopsis, ""),
                 !.credits = CreditsOrEmpty(cache[movieId].credits),
                 !.runtime = Coalesce(cache[movieId].runtime, "")]
  ELSE [v EXCEPT !.synopsis = "", !.credits = createEmptyCredits,
                 !.runtime = ""]

\* the cache-sync effect, deps [cachedMovie, movieId]
CacheSync(v, cache, movieId) ==
  IF movieId \in DOMAIN cache
  THEN [v EXCEPT !.synopsis = Or(cache[movieId].synopsis, ""),
                 !.credits = CreditsOrEmpty(cache[movieId].credits),
                 !.runtime = Coalesce(cache[movieId].runtime, ""),
                 !.imdbLoading = FALSE]
  ELSE [v EXCEPT !.synopsis = "", !.credits = createEmptyCredits,
                 !.runtime = "", !.imdbLoading = FALSE]

\* the enrichment effect, deps [cachedMovie, movieId], up to its await
Enrichment(h) ==
  LET movieId == h.route.movieId
      cancelled == [h EXCEPT !.imdbReqs = EnrichmentCleanup(@)]
  IN IF StartsFetch(h.movieCache, movieId)
     THEN [cancelled EXCEPT !.vp.imdbLoading = TRUE,
                            !.imdbReqs = @ (+) One(ImdbRequest(h.movieCache, movieId))]
     ELSE cancelled

\* the fetchVersions effect, deps [movieId, titleParam, setError, isEmbeddedApp],
\* up to its await
FetchVersions(h) ==
  [h EXCEPT !.vp.loading = TRUE, !.error = "",
            !.versionReqs = CancelAll(@)
               (+) One([movieId |-> h.route.movieId, title |-> h.route.title,
                        cancelled |-> FALSE])]

VersionsEffects(h) ==
  LET was == Mounted(token, route) = "versions"
      is == Mounted(h.token, h.route) = "versions"
      movieId == h.route.movieId
      idChanged == ~was \/ route.movieId # movieId
      cachedChanged == idChanged \/ movieId \in h.touched
      titleChanged == ~was \/ route.title # h.route.title
      h0 == IF was THEN h ELSE [h EXCEPT !.vp = VersionsPageInit]
      h1 == IF cachedChanged
            THEN Enrichment([h0 EXCEPT !.vp = CacheSync(@, h.movieCache, movieId)])
            ELSE h0
      h2 == IF idChanged \/ titleChanged THEN FetchVersions(h1) ELSE h1
  IN IF ~is
     THEN [h EXCEPT !.vp = VersionsPageInit,
                    !.imdbReqs = EnrichmentCleanup(@),
                    !.versionReqs = CancelAll(@),
                    !.downloadReqs = OrphanAll(@)]
     ELSE h2

(***************************************************************************)
(* App effects                                                             *)
(***************************************************************************)
\* one run of the top-movies effect up to its await, after the cleanup of the
\* run before
TopRun(h) ==
  LET cancelled == [h EXCEPT !.topReqs = CancelAll(@)]
  IN IF h.token = "" \/ h.topMoviesRequested THEN cancelled
     ELSE [cancelled EXCEPT !.topMoviesRequested = TRUE,
                            !.topReqs = @ (+) One([cancelled |-> FALSE])]

\* the top-movies effect, deps [token]
TopEffects(h) == IF token = h.token THEN h ELSE TopRun(h)

\* a call of the catalog or download boundary: what was called, with what
Call(kind, a, b) == [kind |-> kind, a |-> a, b |-> b]

\* the history of failed calls is not kept
NotKept == {Call("not kept", Undef, Undef)}

\* the steps that are not a gesture of the user: what runs after an await
Continuations ==
  {"TopMoviesOk", "TopMoviesFail", "SearchOk", "SearchFail", "TopMovieSearchOk",
   "TopMovieSearchFail", "VersionsOk", "VersionsFail", "DownloadOk",
   "DownloadFail", "ImdbOk", "ImdbFail"}

\* the render after a handler, and its effects: children before App
CommitApp(h) ==
  \E h0 \in {h} : \E h1 \in {SearchEffects(h0)} :
  \E h2 \in {VersionsEffects(h1)} : \E n \in {TopEffects(h2)} :
     /\ token' = n.token
     /\ error' = n.error
     /\ topMovies' = n.topMovies
     /\ topMoviesRequested' = n.topMoviesRequested
     /\ route' = n.route
     /\ movieCache' = n.movieCache
     /\ sp' = n.sp
     /\ vp' = n.vp
     /\ searchReqs' = n.searchReqs
     /\ pickReqs' = n.pickReqs
     /\ topReqs' = n.topReqs
     /\ versionReqs' = n.versionReqs
     /\ downloadReqs' = n.downloadReqs
     /\ imdbReqs' = n.imdbReqs
     /\ lastEvent' = n.event
     /\ searched' = n.searched
     /\ tokenStore' = n.tokenStore
     /\ gateError' = n.gateError
     /\ failedCalls' = IF failedCalls = NotKept THEN NotKept
                      ELSE IF n.event.op \in Continuations THEN n.failed ELSE {}
     /\ Inflight' <= MaxInflight

\* a handler of App, SearchPage's movie search, VersionsPage or DownloadPage
Commit(h) == CommitApp(h) /\ UNCHANGED libVars

\* the effects of the page shown, each cleaned up and run again
PageRun(h) ==
  IF Mounted(h.token, h.route) = "search" THEN SearchRun(h, h.sp)
  ELSE IF Mounted(h.token, h.route) = "versions"
  THEN FetchVersions(Enrichment([h EXCEPT
         !.vp = CacheSync(@, h.movieCache, h.route.movieId)]))
  ELSE h

(***************************************************************************)
(* App: token gate, logout, restart, weekly picks                          *)
(***************************************************************************)
\* no merge has been taken alone
InitMergeVars ==
  /\ mergeCached = EmptyEntry
  /\ mergeData = NoDetails
  /\ mergeStored = <<>>

\* SearchPage's useState initial values, for the confirm dialog
TvInit == [pendingTorrent |-> <<>>, confirmOpen |-> FALSE, downloadingKey |-> Undef]

InitTvVars ==
  /\ tv = TvInit
  /\ tvDownloadReqs = EmptyBag

InitExtra == InitMergeVars /\ InitTvVars /\ failedCalls = NotKept

InitBase ==
  /\ token = ""
  /\ error = ""
  /\ topMovies = <<>>
  /\ topMoviesRequested = FALSE
  /\ route = SearchRoute("")
  /\ movieCache = [k \in {} |-> EmptyEntry]
  /\ sp = SearchPageInit("")
  /\ vp = VersionsPageInit
  /\ searchReqs = EmptyBag
  /\ pickReqs = EmptyBag
  /\ topReqs = EmptyBag
  /\ versionReqs = EmptyBag
  /\ downloadReqs = EmptyBag
  /\ imdbReqs = EmptyBag
  /\ lastEvent = Event("Init", Undef, FALSE, Undef)
  /\ searched = FALSE
  /\ tokenStore = Undef
  /\ gateError = ""
  /\ formatInput = JsUndefined
  /\ formatted = NotCalled
  /\ tvResults = <<>>
  /\ posterFetchThreshold = 0
  /\ posterCache = <<>>
  /\ pendingPosterIds = {}
  /\ posterReqs = EmptyBag
  /\ detailReqs = {}
  /\ creditSource = <<>>
  /\ mergedOnce = NotMerged
  /\ mergedTwice = NotMerged
  /\ themeStore = Undef
  /\ theme = "light"
  /\ isManualTheme = FALSE
  /\ prefersDark = FALSE

Init == InitBase /\ InitExtra

\* TokenGate.save with `value` as typed, and App's onSaved with saveToken
SaveToken(Inputs) ==
  /\ token = ""
  /\ \E value \in Inputs :
       LET saving == [On("SaveToken", Undef, FALSE, Undef) EXCEPT
                        !.event.input = value]
       IN IF Trim(value) = ""
          THEN Commit([saving EXCEPT !.gateError = "Please enter a token"])
          ELSE Commit([saving EXCEPT
                         !.tokenStore = Trim(value), !.token = Trim(value),
                         !.gateError = "",
                         !.error = "", !.topMovies = <<>>,
                         !.topMoviesRequested = FALSE,
                         !.route = SearchRoute("")])

handleLogout ==
  /\ token # ""
  /\ Commit([On("handleLogout", Undef, FALSE, Undef) EXCEPT
        !.tokenStore = Undef,
        !.token = "", !.error = "", !.topMovies = <<>>,
                        !.topMoviesRequested = FALSE, !.route = SearchRoute("")])

handleRestart ==
  /\ token # ""
  /\ Commit([On("handleRestart", Undef, FALSE, Undef) EXCEPT
        !.error = "", !.topMoviesRequested = FALSE,
                        !.route = SearchRoute("")])

\* React cleans up every effect and runs it again, state and refs kept, as
\* StrictMode does to check that effects can be remounted and as Fast Refresh
\* does in the development build
RerunEffects ==
  /\ token # ""
  /\ Commit(TopRun(PageRun(On("RerunEffects", Undef, FALSE, Undef))))

\* the user goes back or forward, or opens a URL
BrowserNavigate(Locations) ==
  /\ token # ""
  /\ \E r \in Locations \ {route} :
       Commit([On("BrowserNavigate", Undef, FALSE, Undef) EXCEPT !.route = r])

\* fetchTop after `await getTopMovies(...)` returned
TopMoviesOk(Lists) ==
  \E req \in BagToSet(topReqs), list \in Lists :
    LET left == [On("TopMoviesOk", Undef, req.cancelled, Undef) EXCEPT
          !.topReqs = @ (-) One(req)]
    IN IF req.cancelled THEN Commit(left)
       ELSE Commit([left EXCEPT !.movieCache = rememberMovies(@, list),
                                !.touched = Remembered(list),
                                !.topMovies = list])

\* fetchTop after `await getTopMovies(...)` threw
TopMoviesFail ==
  \E req \in BagToSet(topReqs), failure \in Failures :
    LET left == [On("TopMoviesFail", Undef, req.cancelled, failure) EXCEPT
          !.topReqs = @ (-) One(req)]
    IN IF req.cancelled THEN Commit(left)
       ELSE Commit([left EXCEPT
                      !.error = toErrorMessage(ThrownMessage("Top movies", failure)),
                      !.failed = @ \cup {Call("getTopMovies", Undef, Undef)}])

(***************************************************************************)
(* SearchPage                                                              *)
(***************************************************************************)
\* the input's onChange
TypeInput ==
  /\ Mounted(token, route) = "search"
  /\ \E text \in (QueryInputs \cup {" "}) \ {sp.inputValue} :
       Commit([On("TypeInput", Undef, FALSE, Undef) EXCEPT !.sp.inputValue = text])

\* doSearch without its `if (!canSearch) return;`
canSearch_unchecked == TRUE

canSearch == Trim(sp.inputValue) # ""

\* the body of doSearch: updateSearchParams sets `query` only if it is not blank
Searching(h) ==
  IF ~canSearch THEN h
  ELSE [h EXCEPT !.error = "", !.route = SearchRoute(Trim(sp.inputValue))]

\* doSearch from the Search button or the Enter key, both live only while
\* canSearch
doSearch ==
  /\ Mounted(token, route) = "search"
  /\ canSearch
  /\ Commit(Searching(On("doSearch", Undef, FALSE, Undef)))

\* doSearch called whatever the input holds
doSearchCalled ==
  /\ Mounted(token, route) = "search"
  /\ Commit(Searching(On("doSearch", Undef, FALSE, Undef)))

\* the continuation without its `if (!cancelled)`
SearchCancelled_unchecked(req) == FALSE

\* `if (!cancelled)` after the await of fetchMoviesOrShows
SearchCancelled(req) == req.cancelled

\* fetchMoviesOrShows after `await searchMovies(...)` returned; the event notes
\* the query the call was made for
SearchOk(Lists) ==
  \E req \in BagToSet(searchReqs), list \in Lists :
    LET left == [On("SearchOk", Undef, req.cancelled, Undef) EXCEPT
          !.event.input = req.query,
          !.searchReqs = @ (-) One(req)]
    IN IF SearchCancelled(req) THEN Commit(left)
       ELSE Commit([left EXCEPT !.movieCache = rememberMovies(@, list),
                                !.touched = Remembered(list),
                                !.sp.movies = list,
                                !.sp.hasSearched = TRUE,
                                !.sp.loading = FALSE])

\* fetchMoviesOrShows after `await searchMovies(...)` threw
SearchFail ==
  \E req \in BagToSet(searchReqs), failure \in Failures :
    LET left == [On("SearchFail", Undef, req.cancelled, failure) EXCEPT
          !.searchReqs = @ (-) One(req)]
    IN IF req.cancelled THEN Commit(left)
       ELSE Commit([left EXCEPT
                      !.error = toErrorMessage(ThrownMessage("Search", failure)),
                      !.failed = @ \cup {Call("searchMovies", req.query, Undef)},
                      !.sp.loading = FALSE])

\* a MovieCard of the results grid is clicked
handleMovieClick ==
  /\ Mounted(token, route) = "search"
  /\ ~sp.loading
  /\ \E i \in DOMAIN sp.movies :
       LET movie == sp.movies[i]
       IN Commit([On("handleMovieClick", Undef, FALSE, Undef) EXCEPT
                    !.route = VersionsRoute(movie.id, Or(movie.title, ""))])

showTopTorrents == ~sp.loading /\ ~sp.hasSearched /\ topMovies # <<>>

\* a weekly pick is clicked: handleTopMovie up to its await, or to its end
\* when the pick has no title
handleTopMovie ==
  /\ Mounted(token, route) = "search"
  /\ showTopTorrents
  /\ \E i \in DOMAIN topMovies :
       LET movie == topMovies[i]
       IN IF Truthy(movie.title)
          THEN Commit([On("handleTopMovie", Undef, FALSE, Undef) EXCEPT
                         !.searched = TRUE,
                         !.pickReqs = @ (+) One([id |-> movie.id,
                                                 title |-> movie.title])])
          ELSE Commit([On("handleTopMovie", Undef, FALSE, Undef) EXCEPT
                !.route = VersionsRoute(movie.id, "")])

\* handleTopMovie after `await searchMovies(movie.title, ...)` returned
TopMovieSearchOk(Lists) ==
  \E req \in BagToSet(pickReqs), list \in Lists :
    Commit([On("TopMovieSearchOk", req.id, FALSE, Undef) EXCEPT
          !.pickReqs = @ (-) One(req),
                       !.movieCache = rememberMovies(@, list),
                       !.touched = Remembered(list),
                       !.route = VersionsRoute(req.id, req.title)])

\* handleTopMovie after `await searchMovies(movie.title, ...)` threw: the
\* handler has no catch, the rejection is unhandled
TopMovieSearchFail ==
  \E req \in BagToSet(pickReqs), failure \in Failures :
    Commit([On("TopMovieSearchFail", req.id, FALSE, failure) EXCEPT
          !.pickReqs = @ (-) One(req)])

(***************************************************************************)
(* VersionsPage                                                            *)
(***************************************************************************)
\* fetchVersions after `await getVersions(...)` returned
VersionsOk(Answers) ==
  \E req \in BagToSet(versionReqs) :
    \E list \in VersionLists(req.movieId) \cap Answers :
      LET left == [On("VersionsOk", req.movieId, req.cancelled, Undef) EXCEPT
            !.versionReqs = @ (-) One(req)]
      IN IF req.cancelled THEN Commit(left)
         ELSE Commit([left EXCEPT !.vp.versions = list, !.vp.loading = FALSE])

\* fetchVersions after `await getVersions(...)` threw
VersionsFail ==
  \E req \in BagToSet(versionReqs), failure \in Failures :
    LET left == [On("VersionsFail", req.movieId, req.cancelled, failure) EXCEPT
          !.versionReqs = @ (-) One(req)]
    IN IF req.cancelled THEN Commit(left)
       ELSE Commit([left EXCEPT
                      !.error = toErrorMessage(ThrownMessage("Get versions", failure)),
                      !.failed = @ \cup {Call("getVersions", req.movieId, req.title)},
                      !.vp.loading = FALSE])

\* a VersionRow is clicked; the confirm dialog is modal
requestDownload ==
  /\ Mounted(token, route) = "versions"
  /\ ~vp.loading
  /\ vp.pendingVersion = <<>>
  /\ \E i \in DOMAIN vp.versions :
       Commit([On("requestDownload", Undef, FALSE, Undef) EXCEPT
             !.vp.pendingVersion = <<vp.versions[i]>>])

\* the dialog without its `disabled={isSubmitting}` and `!isSubmitting`
CanDismiss_always(v) == TRUE

\* Cancel is disabled, and onOpenChange(false) ignored, while submitting
CanDismiss(v) == ~v.isSubmitting

\* the dialog's Cancel button or its onOpenChange(false)
dismissDialog ==
  /\ Mounted(token, route) = "versions"
  /\ vp.pendingVersion # <<>>
  /\ CanDismiss(vp)
  /\ Commit([On("dismissDialog", Undef, FALSE, Undef) EXCEPT
        !.vp.pendingVersion = <<>>])

cachedTitle ==
  IF route.movieId \in DOMAIN movieCache THEN movieCache[route.movieId].title
  ELSE Undef

\* movieTitle state: useState(titleParam) kept equal to titleParam by an effect
movieTitle == route.title

\* the title as the URL has it, without the fallbacks
titleForDisplay_param == movieTitle

titleForDisplay == Or(movieTitle, Or(cachedTitle, "Movie " \o route.movieId))

\* the request confirmDownload sends and what its continuation navigates with
DownloadRequest ==
  [torrentId |-> vp.pendingVersion[1], movieTitle |-> titleForDisplay,
   navTitle |-> Or(movieTitle, Or(cachedTitle, "")), orphaned |-> FALSE]

\* confirmDownload up to its await
Confirming(h) ==
  IF vp.pendingVersion = <<>> THEN h
  ELSE [h EXCEPT !.vp.isSubmitting = TRUE, !.error = "",
                 !.downloadReqs = @ (+) One(DownloadRequest)]

\* confirmDownload from the dialog's button, there only while a version is
\* pending
confirmDownload ==
  /\ Mounted(token, route) = "versions"
  /\ vp.pendingVersion # <<>>
  /\ ~vp.isSubmitting
  /\ Commit(Confirming(On("confirmDownload", Undef, FALSE, Undef)))

\* confirmDownload called whether or not a version is pending
confirmDownloadCalled ==
  /\ Mounted(token, route) = "versions"
  /\ ~vp.isSubmitting
  /\ Commit(Confirming(On("confirmDownload", Undef, FALSE, Undef)))

\* confirmDownload after `await downloadMovie(...)` returned
DownloadOk ==
  \E req \in BagToSet(downloadReqs) :
    LET left == [On("DownloadOk", Undef, FALSE, Undef) EXCEPT
          !.downloadReqs = @ (-) One(req),
                            !.route = DownloadRoute(req.navTitle)]
    IN IF req.orphaned THEN Commit(left)
       ELSE Commit([left EXCEPT !.vp.pendingVersion = <<>>,
                                !.vp.isSubmitting = FALSE])

\* confirmDownload after `await downloadMovie(...)` threw
DownloadFail ==
  \E req \in BagToSet(downloadReqs), failure \in Failures :
    LET left == [On("DownloadFail", Undef, FALSE, failure) EXCEPT
          !.downloadReqs = @ (-) One(req),
          !.failed = @ \cup {Call("downloadMovie", ToString(req.torrentId), req.movieTitle)},
          !.error = toErrorMessage(ThrownMessage("Download", failure))]
    IN IF req.orphaned THEN Commit(left)
       ELSE Commit([left EXCEPT !.vp.isSubmitting = FALSE])

\* the continuation without its `if (cancelled) return;`
FetchCancelled_unchecked(req) == FALSE

\* `if (cancelled) return;` after the await of fetchImdbDetails
FetchCancelled(req) == req.cancelled

\* the try block of fetchImdbDetails after the await, and its finally
MergeDetails(h, req, data) ==
  LET cleanSynopsis == Trim(nextSynopsis(data))
      merged == mergedCredits(nextCredits(data), req.cachedCredits)
      existing == GetOrEmpty(h.movieCache, req.movieId)
  IN [h EXCEPT
        !.vp.synopsis = IF Truthy(cleanSynopsis) \/ Truthy(req.cachedSynopsis)
                        THEN Or(cleanSynopsis, Or(req.cachedSynopsis, ""))
                        ELSE @,
        !.vp.credits = merged,
        !.vp.runtime = Or(nextRuntime(data), Or(req.cachedRuntime, "")),
        !.movieCache = MapSet(@, req.movieId, nextEntry(existing, req, data)),
        !.touched = {req.movieId},
        !.vp.imdbLoading = FALSE]

\* a catch block that reports like the catalog calls do
CatchDetailsError_reporting(h, req, failure) ==
  [h EXCEPT !.error = toErrorMessage(ThrownMessage("IMDb details", failure)),
            !.vp.imdbLoading = FALSE]

\* the catch block of fetchImdbDetails (console.error), and its finally
CatchDetailsError(h, req, failure) ==
  IF req.cancelled THEN h ELSE [h EXCEPT !.vp.imdbLoading = FALSE]

\* fetchImdbDetails after `await getImdbDetails(imdbId)` returned
ImdbOk(Responses) ==
  \E req \in BagToSet(imdbReqs), data \in Responses :
    LET left == [On("ImdbOk", req.movieId, req.cancelled, Undef) EXCEPT
          !.imdbReqs = @ (-) One(req)]
    IN IF FetchCancelled(req) THEN Commit(left)
       ELSE Commit(MergeDetails(left, req, data))

\* fetchImdbDetails after `await getImdbDetails(imdbId)` threw
ImdbFail(Fails) ==
  \E req \in BagToSet(imdbReqs), failure \in Fails :
    Commit(CatchDetailsError([On("ImdbFail", req.movieId, req.cancelled, failure) EXCEPT
          !.imdbReqs = @ (-) One(req)], req, failure))

(***************************************************************************)
(* DownloadPage                                                            *)
(***************************************************************************)
\* "Start another search"
startAnotherSearch ==
  /\ Mounted(token, route) = "download"
  /\ Commit([On("startAnotherSearch", Undef, FALSE, Undef) EXCEPT
        !.route = SearchRoute("")])

(***************************************************************************)
(* The whole application.  Its state space is far beyond enumeration, so   *)
(* properties are checked under the specifications below, which are the    *)
(* same handlers under a restricted environment: fewer user gestures,      *)
(* fewer distinct answers of the two boundaries.                           *)
(***************************************************************************)
Next ==
  \/ SaveToken(TokenInputs)
  \/ handleLogout
  \/ handleRestart
  \/ BrowserNavigate(Routes)
  \/ TopMoviesOk(MovieLists)
  \/ TopMoviesFail
  \/ TypeInput
  \/ doSearch
  \/ SearchOk(MovieLists)
  \/ SearchFail
  \/ handleMovieClick
  \/ handleTopMovie
  \/ TopMovieSearchOk(MovieLists)
  \/ TopMovieSearchFail
  \/ VersionsOk(AllVersionLists)
  \/ VersionsFail
  \/ requestDownload
  \/ dismissDialog
  \/ confirmDownload
  \/ DownloadOk
  \/ DownloadFail
  \/ ImdbOk(ImdbResponses)
  \/ ImdbFail(Failures)
  \/ startAnotherSearch

Spec == Init /\ [][Next]_vars

\* the user types a token, with blanks around it
Login == {" tok "}

(***************************************************************************)
(* Enrichment: the user logs in and out and opens title pages by URL; the  *)
(* weekly picks seed the cache; the metadata boundary answers or fails.    *)
(* The catalog calls do not fail and nothing is searched or downloaded.    *)
(***************************************************************************)
Partial(id) == Summary(id, Undef, "poster2", Undef, "2h", Undef)

EnrichLists ==
  { <<Full("1"), Full("2")>>, <<Blank("1")>>,
    <<Partial("1"), Bare("2"), Nameless>> }

EnrichResponses ==
  { NoDetails,
    ImdbDetails(" ", "In space", <<7020>>, <<Named("O'Bannon")>>,
                <<Named("Scott")>>, <<Named("Weaver")>>,
                <<Named("Weaver"), Named("Skerritt")>>) }

\* a non-2xx answer without body, and a rejected fetch
EnrichFailures == {f \in Failures : f.body # "db unavailable"}

\* every title has versions here
EnrichVersions == {<<11>>, <<21>>}

TitleRoutes ==
  {SearchRoute(""), VersionsRoute("1", "Alien"), VersionsRoute("2", "Brazil")}

NextEnrich ==
  \/ SaveToken(Login)
  \/ handleLogout
  \/ BrowserNavigate(TitleRoutes)
  \/ TopMoviesOk(EnrichLists)
  \/ VersionsOk(EnrichVersions)
  \/ ImdbOk(EnrichResponses)
  \/ ImdbFail(EnrichFailures)

SpecEnrich == Init /\ [][NextEnrich]_vars


(***************************************************************************)
(* Properties of the enrichment, under SpecEnrich                          *)
(***************************************************************************)
\* the requests of a bag whose closure has not been cancelled, with their
\* multiplicity
LiveBag(B) == [r \in Live(B) |-> CopiesIn(r, B)]

LiveCount(B) == CopiesOf(Live(B), B)

OnVersions == Mounted(token, route) = "versions"

\* the record has its flag set and a synopsis or a credit
Enriched(entry) ==
  /\ entry.imdbDetailsFetched
  /\ \/ entry.synopsis \notin {Undef, ""}
     \/ /\ entry.credits # <<>>
        /\ \E bucket \in {"writers", "directors", "stars"} :
             entry.credits[1][bucket] # <<>>

\* C1: when the response of a metadata fetch arrives after the view left the
\* fetch's title (another title, or no detail view at all), nothing is written
\* to the cache, the view's synopsis, credits, runtime and loading flag stay
\* as they are, and the fetch in flight for the title now shown stays as it is.
CancelledResponseIsDropped ==
  [][(lastEvent'.op \in {"ImdbOk", "ImdbFail"} /\ lastEvent'.cancelled)
       => /\ movieCache' = movieCache
          /\ vp' = vp
          /\ LiveBag(imdbReqs') = LiveBag(imdbReqs)]_vars

\* title A's response has just arrived while the view shows title B and waits
\* for B's own fetch
CancelledResponseArrived ==
  /\ lastEvent.op = "ImdbOk"
  /\ lastEvent.cancelled
  /\ OnVersions
  /\ route.movieId # lastEvent.movieId
  /\ vp.imdbLoading
  /\ \E r \in Live(imdbReqs) : r.movieId = route.movieId

\* C5: at most one metadata fetch is live, and it is the one of the title the
\* mounted detail view shows: whatever was in flight for another title, or for
\* an earlier run of the effect, has been cancelled.
OneLiveFetch ==
  /\ LiveCount(imdbReqs) <= 1
  /\ \A r \in Live(imdbReqs) : OnVersions /\ r.movieId = route.movieId

\* a fetch was superseded: the cancelled one and its successor are in flight
FetchSuperseded ==
  /\ OnVersions
  /\ \E old \in BagToSet(imdbReqs) : old.cancelled /\ old.movieId # route.movieId
  /\ \E r \in Live(imdbReqs) : r.movieId = route.movieId

\* C6: a title whose record is enriched stays enriched, and no step leaves a
\* live metadata request for it, whatever view is mounted or mounted again.
EnrichedIsNeverFetched ==
  [][\A k \in DOMAIN movieCache :
       Enriched(movieCache[k])
         => /\ k \in DOMAIN movieCache'
            /\ Enriched(movieCache'[k])
            /\ \A r \in Live(imdbReqs') : r.movieId # k]_vars

\* the detail view of an enriched title has just been opened again
EnrichedReopened ==
  /\ OnVersions
  /\ lastEvent.op = "BrowserNavigate"
  /\ route.movieId \in DOMAIN movieCache
  /\ Enriched(movieCache[route.movieId])
  /\ movieCache[route.movieId].imdbId \notin {Undef, ""}
  /\ ~vp.imdbLoading

\* C7: while the detail view shows a title without a cache record, or whose
\* record has no imdbId, no metadata request is live and the loading flag of
\* the enrichment is false.
NoImdbIdNoFetch ==
  (OnVersions /\ (route.movieId \notin DOMAIN movieCache
                    \/ movieCache[route.movieId].imdbId \in {Undef, ""}))
    => (Live(imdbReqs) = {} /\ ~vp.imdbLoading)

\* the title shown lost its imdbId while its fetch was in flight
ImdbIdGone ==
  /\ OnVersions
  /\ route.movieId \in DOMAIN movieCache
  /\ movieCache[route.movieId].imdbId \in {Undef, ""}
  /\ \E old \in BagToSet(imdbReqs) : old.movieId = route.movieId

\* C8: when a metadata request fails, the cache (the flag included) and the
\* error slot are as before, and so is the versions listing with its pending
\* choice; only the enrichment's loading flag goes off.
EnrichmentFailureIsContained ==
  [][(lastEvent'.op = "ImdbFail" /\ ~lastEvent'.cancelled)
       => /\ movieCache' = movieCache
          /\ error' = error
          /\ route' = route
          /\ vp' = [vp EXCEPT !.imdbLoading = FALSE]
          /\ versionReqs' = versionReqs]_vars

\* the fetch of the title shown has just failed
EnrichmentFailed ==
  /\ lastEvent.op = "ImdbFail"
  /\ ~lastEvent.cancelled
  /\ OnVersions
  /\ route.movieId = lastEvent.movieId
  /\ ~movieCache[route.movieId].imdbDetailsFetched
  /\ error = ""
  /\ ~vp.imdbLoading

\* the fields rememberMovies copies from a summary
LightFields == {"posterUrl", "title", "year", "runtime", "imdbId"}

FieldIsSet(value) == value \notin {Undef, ""}

\* C3: a rememberMovies call (here the one of the weekly picks) leaves every
\* record it was not given as it is, and in a record it was given it keeps the
\* synopsis, the credits and the flag, and every field that no input record
\* of that id carries; so the runtime too of a record enriched before.
RememberKeepsAbsentFields ==
  [][(lastEvent'.op = "TopMoviesOk" /\ ~lastEvent'.cancelled)
       => \A k \in DOMAIN movieCache :
            LET given == {i \in DOMAIN topMovies' : topMovies'[i].id = k}
            IN /\ k \in DOMAIN movieCache'
               /\ given = {} => movieCache'[k] = movieCache[k]
               /\ movieCache'[k].synopsis = movieCache[k].synopsis
               /\ movieCache'[k].credits = movieCache[k].credits
               /\ movieCache'[k].imdbDetailsFetched
                    = movieCache[k].imdbDetailsFetched
               /\ \A f \in LightFields :
                    (\A i \in given : topMovies'[i][f] = Undef)
                      => movieCache'[k][f] = movieCache[k][f]]_vars

\* the weekly picks have just brought a record without title or imdbId for a
\* title that was enriched before, runtime included
EnrichedRemembered ==
  /\ lastEvent.op = "TopMoviesOk"
  /\ ~lastEvent.cancelled
  /\ \E i \in DOMAIN topMovies :
       /\ topMovies[i].id \in DOMAIN movieCache
       /\ topMovies[i].title = Undef
       /\ topMovies[i].imdbId = Undef
       /\ topMovies[i].posterUrl # Undef
       /\ Enriched(movieCache[topMovies[i].id])
       /\ FieldIsSet(movieCache[topMovies[i].id].title)
       /\ FieldIsSet(movieCache[topMovies[i].id].imdbId)

\* C2, as stated: a field of a record that holds a non-empty value holds a
\* non-empty value after every step (a write that carries a value replaces
\* it, a write that carries none or an empty one leaves it).
FieldsStayNonEmpty ==
  [][\A k \in DOMAIN movieCache :
       /\ k \in DOMAIN movieCache'
       /\ \A f \in LightFields \cup {"synopsis"} :
            FieldIsSet(movieCache[k][f]) => FieldIsSet(movieCache'[k][f])
       /\ \A bucket \in {"writers", "directors", "stars"} :
            (movieCache[k].credits # <<>>
               /\ movieCache[k].credits[1][bucket] # <<>>)
              => (movieCache'[k].credits # <<>>
                    /\ movieCache'[k].credits[1][bucket] # <<>>)]_vars

\* C4, as stated: the step in which a metadata fetch completes successfully
\* leaves no live metadata request for its title.
NoRetryAfterSuccess ==
  [][(lastEvent'.op = "ImdbOk" /\ ~lastEvent'.cancelled)
       => \A r \in Live(imdbReqs') : r.movieId # lastEvent'.movieId]_vars

(***************************************************************************)
(* Search, versions, download: the user searches, opens titles from the    *)
(* results and the weekly picks, and downloads; every catalog call may     *)
(* fail.  The catalog knows no imdbId here, so nothing is enriched.        *)
(***************************************************************************)
FlowLists == { <<NoImdb("1"), Bare("2")>> }

FlowRoutes == {SearchRoute(""), VersionsRoute("1", "")}

NextFlow ==
  \/ SaveToken(Login)
  \/ BrowserNavigate(FlowRoutes)
  \/ TopMoviesOk(FlowLists)
  \/ TopMoviesFail
  \/ TypeInput
  \/ doSearch
  \/ SearchOk(FlowLists)
  \/ SearchFail
  \/ handleMovieClick
  \/ handleTopMovie
  \/ TopMovieSearchOk(FlowLists)
  \/ TopMovieSearchFail
  \/ VersionsOk(AllVersionLists)
  \/ VersionsFail
  \/ requestDownload
  \/ dismissDialog
  \/ confirmDownload
  \/ DownloadOk
  \/ DownloadFail
  \/ startAnotherSearch

SpecFlow == Init /\ [][NextFlow]_vars

(***************************************************************************)
(* Properties of the flow, under SpecFlow                                  *)
(***************************************************************************)
FailedCalls ==
  {"SearchFail", "TopMovieSearchFail", "TopMoviesFail", "VersionsFail",
   "DownloadFail"}

OperationOf(op) ==
  CASE op \in {"SearchFail", "TopMovieSearchFail"} -> "Search"
    [] op = "TopMoviesFail" -> "Top movies"
    [] op = "VersionsFail" -> "Get versions"
    [] op = "DownloadFail" -> "Download"

\* C9, as stated: when a catalog or download call that has not been cancelled
\* is answered with a non-2xx response, the error slot then holds the body
\* text, or "<operation> failed (<status>)" when the body is empty.
BoundaryErrorsPropagate ==
  [][(/\ lastEvent'.op \in FailedCalls
      /\ ~lastEvent'.cancelled
      /\ lastEvent'.failure.kind = "http")
       => error' = IF lastEvent'.failure.body # ""
                   THEN lastEvent'.failure.body
                   ELSE OperationOf(lastEvent'.op) \o " failed ("
                          \o ToString(lastEvent'.failure.status) \o ")"]_vars

\* the title the versions page shows
ShownTitle ==
  IF route.title # "" THEN route.title
  ELSE IF route.movieId \in DOMAIN movieCache
            /\ FieldIsSet(movieCache[route.movieId].title)
       THEN movieCache[route.movieId].title
       ELSE "Movie " \o route.movieId

Placeholders == {"Movie " \o id : id \in Ids}

\* the download request r leaves the requests in flight; the others stay, their
\* component possibly gone
Answered(r) ==
  downloadReqs' \in {downloadReqs (-) One(r), OrphanAll(downloadReqs (-) One(r))}

\* C10, as stated: a download that succeeds takes the app to the download
\* view with the title the request carried.
DownloadCarriesShownTitle ==
  [][lastEvent'.op = "DownloadOk"
       => \E r \in BagToSet(downloadReqs) :
            /\ Answered(r)
            /\ route'.page = "download"
            /\ route'.title = r.movieTitle]_vars

\* C10, amended: a download request is sent by the confirmation only, for the
\* pending version and with the shown title; the app enters the download view
\* only when a download succeeded, and then with the title the request
\* carried, or with none when that was the placeholder "Movie <id>"; a
\* download that fails changes no location and sets the error slot.
DownloadOrdering ==
  [][/\ lastEvent'.op = "confirmDownload"
          => /\ vp.pendingVersion # <<>>
             /\ \E r \in BagToSet(downloadReqs') :
                  /\ downloadReqs' = downloadReqs (+) One(r)
                  /\ r.torrentId = vp.pendingVersion[1]
                  /\ r.movieTitle = ShownTitle
     /\ BagCardinality(downloadReqs') > BagCardinality(downloadReqs)
          => lastEvent'.op = "confirmDownload"
     /\ (route'.page = "download" /\ route.page # "download")
          => lastEvent'.op = "DownloadOk"
     /\ lastEvent'.op = "DownloadOk"
          => \E r \in BagToSet(downloadReqs) :
               /\ Answered(r)
               /\ route'.page = "download"
               /\ route'.title = IF r.movieTitle \in Placeholders THEN ""
                                 ELSE r.movieTitle
     /\ lastEvent'.op = "DownloadFail"
          => route' = route /\ error' # ""]_vars

\* a download of a title shown by its placeholder has just succeeded
DownloadedUntitled ==
  /\ lastEvent.op = "DownloadOk"
  /\ route.page = "download"
  /\ route.title = ""

\* C11, as stated: whenever the app itself (a click, not a URL the user
\* opened) issues a version-listing request, a catalog search has been issued
\* before in the session.
SearchBeforeVersions ==
  [][(/\ lastEvent'.op # "BrowserNavigate"
      /\ \E r \in Live(versionReqs') : r \notin Live(versionReqs))
       => searched']_vars

(***************************************************************************)
(* The token gate: the user saves tokens (blank ones too), logs out,       *)
(* restarts, and in between searches, picks and downloads                  *)
(***************************************************************************)
GateLists == {<<NoImdb("1")>>}

GateVersions == {<<11>>}

GateRoutes == {SearchRoute(""), VersionsRoute("1", "Alien")}

NextGate ==
  \/ SaveToken(TokenInputs)
  \/ handleLogout
  \/ handleRestart
  \/ BrowserNavigate(GateRoutes)
  \/ TopMoviesOk(GateLists)
  \/ TypeInput
  \/ doSearch
  \/ SearchOk(GateLists)
  \/ handleMovieClick
  \/ handleTopMovie
  \/ TopMovieSearchOk(GateLists)
  \/ VersionsOk(GateVersions)
  \/ requestDownload
  \/ confirmDownload
  \/ DownloadOk

SpecGate == Init /\ [][NextGate]_vars

\* a request that was not in the bag before, and is not one that a cleanup or
\* an unmount marked
Issues(before, after) ==
  \E r \in BagToSet(after) :
    /\ CopiesIn(r, after) > CopiesIn(r, before)
    /\ "cancelled" \in DOMAIN r => ~r.cancelled
    /\ "orphaned" \in DOMAIN r => ~r.orphaned

IssuesCatalogRequest ==
  \/ Issues(searchReqs, searchReqs')
  \/ Issues(pickReqs, pickReqs')
  \/ Issues(topReqs, topReqs')
  \/ Issues(versionReqs, versionReqs')
  \/ Issues(downloadReqs, downloadReqs')

RejectedSave(e) == e.op = "SaveToken" /\ Trim(e.input) = ""

\* C12: every step that ends with no token held ends with only the token
\* prompt on screen, the pages' state gone, and issues no search, weekly-picks,
\* version-listing or download request; saving a blank token leaves the token
\* and the token store as they were; a logout ends with no token held and none
\* stored.
TokenGateHolds ==
  [][/\ token' = "" =>
          /\ Mounted(token', route') = "gate"
          /\ sp' = SearchPageInit("") /\ vp' = VersionsPageInit
          /\ ~IssuesCatalogRequest
     /\ RejectedSave(lastEvent') =>
          /\ token' = token /\ tokenStore' = tokenStore
          /\ token' = "" /\ tokenStore' = Undef
     /\ lastEvent'.op = "handleLogout" => token' = "" /\ tokenStore' = Undef
    ]_vars

\* a blank token was refused after a logout, while a download and a search
\* for a weekly pick from before the logout are still awaited
BlankTokenRefusedAfterLogout ==
  /\ RejectedSave(lastEvent)
  /\ lastEvent.input = " "
  /\ token = "" /\ tokenStore = Undef /\ gateError # ""
  /\ pickReqs # EmptyBag
  /\ downloadReqs # EmptyBag

(***************************************************************************)
(* Submitting: doSearch and confirmDownload called in every state of their *)
(* pages, with failing searches and downloads                              *)
(***************************************************************************)
NextSubmit ==
  \/ SaveToken(Login)
  \/ BrowserNavigate(FlowRoutes)
  \/ TopMoviesOk(FlowLists)
  \/ TypeInput
  \/ doSearchCalled
  \/ SearchOk(FlowLists)
  \/ SearchFail
  \/ handleMovieClick
  \/ VersionsOk(GateVersions)
  \/ VersionsFail
  \/ requestDownload
  \/ dismissDialog
  \/ confirmDownloadCalled
  \/ DownloadOk
  \/ DownloadFail
  \/ startAnotherSearch

SpecSubmit == Init /\ [][NextSubmit]_vars

\* the step changed nothing but the note of what ran
NothingHappened ==
  UNCHANGED <<token, error, topMovies, topMoviesRequested, route, movieCache,
              sp, vp, searchReqs, pickReqs, topReqs, versionReqs, downloadReqs,
              imdbReqs, searched, tokenStore, gateError, extraVars>>

\* C13: doSearch called while the input is empty or blank, and confirmDownload
\* called while no version is pending, change nothing: no request is issued,
\* the URL and the error slot stay as they were.
BlankSubmitsDoNothing ==
  [][/\ (lastEvent'.op = "doSearch" /\ Trim(sp.inputValue) = "")
          => NothingHappened
     /\ (lastEvent'.op = "confirmDownload" /\ vp.pendingVersion = <<>>)
          => NothingHappened]_vars

\* a blank input was submitted while the URL holds an earlier query whose
\* search failed
BlankSubmitted ==
  /\ lastEvent.op = "doSearch"
  /\ sp.inputValue = " "
  /\ route.query # ""
  /\ error # ""

(***************************************************************************)
(* Loading flags                                                           *)
(***************************************************************************)
\* a search of the search effect is awaited and `loading` is set
SearchLoading == Live(searchReqs) # {} => sp.loading

\* the search of a clicked weekly pick is awaited and `loading` is set
PickLoading == pickReqs # EmptyBag => sp.loading

VersionsLoading == Live(versionReqs) # {} => vp.loading

DownloadSubmitting ==
  (\E r \in BagToSet(downloadReqs) : ~r.orphaned) => vp.isSubmitting

ImdbLoading == Live(imdbReqs) # {} => vp.imdbLoading

\* C14, as stated: whenever a search, version-listing, download or metadata
\* request that was not superseded is in flight, the loading flag of its page
\* (loading, isSubmitting, imdbLoading) is true.
LoadingWhileInFlight ==
  /\ SearchLoading
  /\ PickLoading
  /\ VersionsLoading
  /\ DownloadSubmitting
  /\ ImdbLoading

(***************************************************************************)
(* rememberMovies racing with an enrichment                                *)
(***************************************************************************)
\* the fields of a record that fetchImdbDetails assigns, the credits aside
MergedFields == {"imdbId", "runtime", "synopsis"}

\* each of `fields` and every credit bucket of `before` that holds something
\* holds something in `after`
KeepsFields(fields, before, after) ==
  /\ \A f \in fields : FieldIsSet(before[f]) => FieldIsSet(after[f])
  /\ \A bucket \in {"writers", "directors", "stars"} :
       (before.credits # <<>> /\ before.credits[1][bucket] # <<>>)
         => (after.credits # <<>> /\ after.credits[1][bucket] # <<>>)

\* C15, as stated: when the weekly picks and the details of a title were
\* awaited together, the record after both writes holds something in every
\* field that either write filled.  The details written first: the
\* rememberMovies call that follows keeps what the merge assigned (imdbId,
\* runtime, synopsis, credits).  The picks written first: the merge of the
\* details keeps what the record holds.
RacingWritesKeepFields ==
  [][/\ (/\ lastEvent.op = "ImdbOk" /\ ~lastEvent.cancelled
         /\ lastEvent'.op = "TopMoviesOk" /\ ~lastEvent'.cancelled
         /\ \E i \in DOMAIN topMovies' : topMovies'[i].id = lastEvent.movieId)
          => KeepsFields(MergedFields, movieCache[lastEvent.movieId],
                         movieCache'[lastEvent.movieId])
     /\ (lastEvent'.op = "ImdbOk" /\ ~lastEvent'.cancelled)
          => KeepsFields(LightFields \cup MergedFields,
                         movieCache[lastEvent'.movieId],
                         movieCache'[lastEvent'.movieId])]_vars

(***************************************************************************)
(* formatImdbId called once with a value of any type                       *)
(***************************************************************************)
MaxChars == 3

Alphabet == {"t", "0", "7", " ", "-"}

RECURSIVE StringsUpTo(_)
StringsUpTo(n) ==
  IF n = 0 THEN {<<>>}
  ELSE LET shorter == StringsUpTo(n - 1)
       IN shorter \cup {<<c>> \o cs : c \in Alphabet,
                                      cs \in {x \in shorter : Len(x) = n - 1}}

FormatInputs ==
  {JsNull, JsUndefined, JsTrue, JsObject, JsNaN, JsInfinity, Js1e21}
    \cup {JsNumber(t) : t \in {-1330935, -70, -5, 0, 4, 70, 75, 1330930,
                               12345670, 123456780}}
    \cup {JsString(cs) : cs \in StringsUpTo(MaxChars)}
    \cup {JsString(<<"t", "t", "0", "1", "3", "3", "0", "9", "3">>),
          JsString(<<" ", "1", "2", "3", "4", "5", "6", "7", "8">>)}

InitFormat ==
  \E v \in FormatInputs :
    /\ formatInput = v
    /\ formatted = NotCalled
    /\ tvResults = <<>>
    /\ posterFetchThreshold = 0
    /\ posterCache = <<>>
    /\ pendingPosterIds = {}
    /\ posterReqs = EmptyBag
    /\ detailReqs = {}
    /\ creditSource = <<>>
    /\ mergedOnce = NotMerged
    /\ mergedTwice = NotMerged
    /\ themeStore = Undef
    /\ theme = "light"
    /\ isManualTheme = FALSE
    /\ prefersDark = FALSE
    /\ token = ""
    /\ error = ""
    /\ topMovies = <<>>
    /\ topMoviesRequested = FALSE
    /\ route = SearchRoute("")
    /\ movieCache = [k \in {} |-> EmptyEntry]
    /\ sp = SearchPageInit("")
    /\ vp = VersionsPageInit
    /\ searchReqs = EmptyBag
    /\ pickReqs = EmptyBag
    /\ topReqs = EmptyBag
    /\ versionReqs = EmptyBag
    /\ downloadReqs = EmptyBag
    /\ imdbReqs = EmptyBag
    /\ lastEvent = Event("Init", Undef, FALSE, Undef)
    /\ searched = FALSE
    /\ tokenStore = Undef
    /\ gateError = ""
    /\ InitExtra

appVars ==
  <<token, error, topMovies, topMoviesRequested, route, movieCache, sp, vp,
    searchReqs, pickReqs, topReqs, versionReqs, downloadReqs, imdbReqs,
    lastEvent, searched, tokenStore, gateError, failedCalls>>

posterVars ==
  <<tvResults, posterFetchThreshold, posterCache, pendingPosterIds, posterReqs,
    detailReqs>>

formatVars == <<formatInput, formatted>>

creditVars == <<creditSource, mergedOnce, mergedTwice>>

themeVars == <<themeStore, theme, isManualTheme, prefersDark>>

Format ==
  /\ formatted = NotCalled
  /\ formatted' = formatImdbId(formatInput)
  /\ UNCHANGED <<formatInput, appVars, posterVars, creditVars, themeVars, extraVars>>

NextFormat == Format

SpecFormat == InitFormat /\ [][NextFormat]_vars

\* `tt` and then seven digits or more
IsNormalized(v) ==
  /\ v.type = "string"
  /\ Len(v.chars) >= 9
  /\ v.chars[1] = "t" /\ v.chars[2] = "t"
  /\ \A i \in 3..Len(v.chars) : v.chars[i] \in Digits

HasDigit(chars) == \E i \in DOMAIN chars : chars[i] \in Digits

IsBlank(chars) == \A i \in DOMAIN chars : chars[i] = " "

\* C17, as stated: formatImdbId returns null for null and undefined, "" for a
\* string that is empty once trimmed, null for a string without digits (and
\* for what is neither a string nor a finite number), and for every other
\* value `tt` followed by seven digits or more: the digits of the string, or
\* of the number's truncated magnitude, behind the zeros that pad them.
FormatIsThreeValued ==
  formatted # NotCalled =>
    /\ formatted.type \in {"null", "string"}
    /\ formatInput.type \in {"null", "undefined"} => formatted = JsNull
    /\ (formatInput.type = "string" /\ IsBlank(formatInput.chars))
         => formatted = JsString(<<>>)
    /\ (formatInput.type = "string" /\ ~IsBlank(formatInput.chars)
          /\ ~HasDigit(formatInput.chars)) => formatted = JsNull
    /\ (formatInput.type = "string" /\ HasDigit(formatInput.chars))
         => /\ IsNormalized(formatted)
            /\ \E zeros \in 0..6 :
                 SubSeq(formatted.chars, 3 + zeros, Len(formatted.chars))
                   = OnlyDigits(formatInput.chars)
    /\ (formatInput.type = "number" /\ formatInput.form \in {"finite", "1e21"})
         => IsNormalized(formatted)
    /\ (formatInput.type = "number" /\ formatInput.form = "finite")
         => \E zeros \in 0..6 :
              SubSeq(formatted.chars, 3 + zeros, Len(formatted.chars))
                = AbsTruncToString(formatInput)
    /\ (formatInput.type \in {"boolean", "object"}
          \/ (formatInput.type = "number" /\ formatInput.form \in {"NaN", "Infinity"}))
         => formatted = JsNull

(***************************************************************************)
(* Identifiers sent to the metadata boundary: the poster lookups of the    *)
(* TV results on SearchPage, and the detail fetch of VersionsPage          *)
(***************************************************************************)
POSTER_BATCH_SIZE == 5

\* getImdbDetails: the id in `https://api.imdbapi.dev/titles/tt${imdbId}`
TitlesId(imdbId) == <<"t", "t">> \o imdbId

\* Boolean(id) of what formatImdbId returns
IsTruthyId(id) == id.type = "string" /\ id.chars # <<>>

\* Array.from(new Set(ids)): the first occurrences, in order
RECURSIVE Unique(_)
Unique(ids) ==
  IF ids = <<>> THEN <<>>
  ELSE LET front == Unique(SubSeq(ids, 1, Len(ids) - 1))
           last == ids[Len(ids)]
       IN IF \E i \in DOMAIN front : front[i] = last THEN front
          ELSE Append(front, last)

Min(a, b) == IF a < b THEN a ELSE b

\* the ids the poster effect would fetch: formatted, truthy, unique, not
\* pending and not settled in posterCache, the first POSTER_BATCH_SIZE
PosterBatch(results, threshold, cache, pending) ==
  LET eligibleResults == SubSeq(results, 1, Min(threshold, Len(results)))
      candidateIds == [i \in DOMAIN eligibleResults |->
                         formatImdbId(eligibleResults[i])]
      filteredIds == SelectSeq(candidateIds, IsTruthyId)
      uniqueIds == Unique([i \in DOMAIN filteredIds |-> filteredIds[i].chars])
      Wanted(id) == id \notin pending /\ id \notin DOMAIN cache
      toFetch == SelectSeq(uniqueIds, Wanted)
  IN SubSeq(toFetch, 1, Min(POSTER_BATCH_SIZE, Len(toFetch)))

RECURSIVE Requested(_)
Requested(batch) ==
  IF batch = <<>> THEN EmptyBag
  ELSE Requested(Tail(batch))
         (+) One([imdbId |-> Head(batch), sent |-> TitlesId(Head(batch)),
                  cancelled |-> FALSE])

\* one run of the poster effect in a TV mode: the cleanup of the run before,
\* then the effect up to its await; p holds pendingPosterIds and the requests
PosterEffect(results, threshold, cache, p) ==
  LET cleaned == [pending |-> p.pending \ {r.imdbId : r \in Live(p.reqs)},
                  reqs |-> CancelAll(p.reqs)]
      batch == PosterBatch(results, threshold, cache, cleaned.pending)
  IN IF threshold <= 0 \/ results = <<>> \/ batch = <<>> THEN cleaned
     ELSE [pending |-> cleaned.pending \cup {batch[i] : i \in DOMAIN batch},
           reqs |-> cleaned.reqs (+) Requested(batch)]

PosterState == [pending |-> pendingPosterIds, reqs |-> posterReqs]

\* the results change: the poster effect runs with the threshold it has, the
\* threshold effect sets the new one, and the poster effect runs again
ShowResults(results) ==
  LET threshold == IF results = <<>> THEN 0
                   ELSE Min(POSTER_BATCH_SIZE, Len(results))
      first == PosterEffect(results, posterFetchThreshold, posterCache,
                            PosterState)
      second == IF threshold = posterFetchThreshold THEN first
                ELSE PosterEffect(results, threshold, posterCache, first)
  IN /\ Mounted(token, route) = "search"
     /\ tvResults' = results
     /\ posterFetchThreshold' = threshold
     /\ pendingPosterIds' = second.pending
     /\ posterReqs' = second.reqs
     /\ BagCardinality(posterReqs') <= MaxInflight
     /\ UNCHANGED <<posterCache, detailReqs, formatVars, creditVars, themeVars,
                    appVars, extraVars>>

\* fetchMoviesOrShows of a TV mode up to its await: setHdbitsResults([]) or
\* setBtnResults([])
TvSearch ==
  /\ tvResults # <<>>
  /\ ShowResults(<<>>)

\* fetchMoviesOrShows of a TV mode after its await: the imdb ids of the
\* torrents found
TvSearchOk(Lists) ==
  \E results \in Lists : ShowResults(results)

\* a lookup of the batch is answered: status is 'success' or 'error'
PosterSettled(status) ==
  \E req \in BagToSet(posterReqs) :
    LET left == [pending |-> pendingPosterIds \ {req.imdbId},
                 reqs |-> posterReqs (-) One(req)]
        known == req.imdbId \in DOMAIN posterCache
                   /\ posterCache[req.imdbId] = status
        cache == MapSet(posterCache, req.imdbId, status)
        next == IF req.cancelled \/ known THEN left
                ELSE PosterEffect(tvResults, posterFetchThreshold, cache, left)
    IN /\ Mounted(token, route) = "search"
       /\ posterCache' = IF req.cancelled \/ known THEN posterCache ELSE cache
       /\ pendingPosterIds' = next.pending
       /\ posterReqs' = next.reqs
       /\ BagCardinality(posterReqs') <= MaxInflight
       /\ UNCHANGED <<tvResults, posterFetchThreshold, detailReqs, formatVars,
                      creditVars, themeVars, appVars, extraVars>>

PosterOk == PosterSettled("success")

PosterFail == PosterSettled("error")

\* String(imdbIdRaw) of a string or a natural number
StringOf(v) == IF v.type = "number" THEN AbsTruncToString(v) ELSE v.chars

\* Boolean(imdbIdRaw)
IsTruthy(v) ==
  \/ v.type = "string" /\ v.chars # <<>>
  \/ v.type = "number" /\ v.form = "finite" /\ v.tenths # 0

\* the enrichment effect of VersionsPage for a cached record whose imdbId is
\* `raw`, as far as the id goes: `if (!imdbIdRaw) return;`, String(imdbIdRaw),
\* getImdbDetails(imdbId)
DetailFetch(Raws) ==
  \E raw \in Raws :
    /\ token # ""
    /\ IsTruthy(raw)
    /\ detailReqs' = detailReqs
          \cup {[raw |-> raw, imdbId |-> StringOf(raw),
                  sent |-> TitlesId(StringOf(raw))]}
    /\ UNCHANGED <<tvResults, posterFetchThreshold, posterCache,
                   pendingPosterIds, posterReqs, formatVars, creditVars,
                   themeVars, appVars, extraVars>>

\* the ids of the torrents of a TV search: a number from HDBits, a string
\* from BTN, or none
Matrix == JsNumber(1330930)
TvLists ==
  { <<Matrix>>,
    <<JsString(<<"t", "t", "0", "1", "3", "3", "0", "9", "3">>),
      JsString(<<"1", "3", "3", "0", "9", "3">>)>>,
    <<JsUndefined, JsString(<<"7">>)>>,
    <<JsString(<<>>), JsNumber(70)>> }

\* the imdbId of a cached record, as the catalog gave it
DetailRaws ==
  { JsString(<<"0", "1", "3", "3", "0", "9", "3">>),
    JsString(<<"1", "3", "3", "0", "9", "3">>),
    JsString(<<"t", "t", "0", "1", "3", "3", "0", "9", "3">>),
    JsString(<<>>), JsUndefined }

NextIds ==
  \/ SaveToken(Login)
  \/ TvSearch
  \/ TvSearchOk(TvLists)
  \/ PosterOk
  \/ PosterFail
  \/ DetailFetch(DetailRaws)

SpecIds == Init /\ [][NextIds]_vars

\* C16, as stated: every identifier sent to the metadata boundary is the
\* normalized id (`tt` once, then the digits padded to seven) of the raw id it
\* was made from, for the poster lookups and for the detail fetch.
SentIdIsNormalized ==
  [][/\ \A r \in BagToSet(posterReqs') :
          (~r.cancelled /\ CopiesIn(r, posterReqs') > CopiesIn(r, posterReqs))
            => /\ IsNormalized(JsString(r.sent))
               /\ \E i \in DOMAIN tvResults' :
                    JsString(r.sent) = formatImdbId(tvResults'[i])
     /\ \A r \in detailReqs' \ detailReqs :
          /\ IsNormalized(JsString(r.sent))
          /\ JsString(r.sent) = formatImdbId(r.raw)]_vars

(***************************************************************************)
(* mergePeople called with one credit list, and with the same list twice   *)
(***************************************************************************)
MaxPeople == 3

\* strings, and objects with and without an id, some of them of the same name
CreditEntries ==
  {Named(n) : n \in {"Weaver", "Scott", " "}}
    \cup {Person(id, n) : id \in {Undef, "nm1", "nm2", "Scott"},
                          n \in {"Weaver", "Scott", " "}}

RECURSIVE ListsUpTo(_)
ListsUpTo(n) ==
  IF n = 0 THEN {<<>>}
  ELSE LET shorter == ListsUpTo(n - 1)
       IN shorter \cup {<<e>> \o l : e \in CreditEntries,
                                     l \in {x \in shorter : Len(x) = n - 1}}

InitCredits ==
  \E source \in ListsUpTo(MaxPeople) :
    /\ creditSource = source
    /\ mergedOnce = NotMerged
    /\ mergedTwice = NotMerged
    /\ formatInput = JsUndefined
    /\ formatted = NotCalled
    /\ tvResults = <<>>
    /\ posterFetchThreshold = 0
    /\ posterCache = <<>>
    /\ pendingPosterIds = {}
    /\ posterReqs = EmptyBag
    /\ detailReqs = {}
    /\ themeStore = Undef
    /\ theme = "light"
    /\ isManualTheme = FALSE
    /\ prefersDark = FALSE
    /\ token = ""
    /\ error = ""
    /\ topMovies = <<>>
    /\ topMoviesRequested = FALSE
    /\ route = SearchRoute("")
    /\ movieCache = [k \in {} |-> EmptyEntry]
    /\ sp = SearchPageInit("")
    /\ vp = VersionsPageInit
    /\ searchReqs = EmptyBag
    /\ pickReqs = EmptyBag
    /\ topReqs = EmptyBag
    /\ versionReqs = EmptyBag
    /\ downloadReqs = EmptyBag
    /\ imdbReqs = EmptyBag
    /\ lastEvent = Event("Init", Undef, FALSE, Undef)
    /\ searched = FALSE
    /\ tokenStore = Undef
    /\ gateError = ""
    /\ InitExtra

Merge ==
  /\ mergedOnce = NotMerged
  /\ mergedOnce' = mergePeople(<<creditSource>>)
  /\ mergedTwice' = mergePeople(<<creditSource, creditSource>>)
  /\ UNCHANGED <<creditSource, formatVars, posterVars, themeVars, appVars, extraVars>>

NextCredits == Merge

SpecCredits == InitCredits /\ [][NextCredits]_vars

\* where the key first occurs among the people of a list
FirstAt(people, key) ==
  CHOOSE i \in DOMAIN people :
    /\ people[i].id = key
    /\ \A j \in 1..(i - 1) : people[j].id # key

\* C18: mergePeople of a list passed twice returns what it returns for the
\* list passed once; no two people of the result have the same key (the id,
\* which is the name where the entry has no id); everyone in the list is in
\* the result under their key, as their first occurrence, and the result is
\* in the order of the first occurrences.
DedupIsIdempotent ==
  mergedOnce # NotMerged =>
    LET people == toPeopleArray(creditSource)
    IN /\ mergedTwice = mergedOnce
       /\ \A i, j \in DOMAIN mergedOnce :
            i # j => mergedOnce[i].id # mergedOnce[j].id
       /\ {mergedOnce[i].id : i \in DOMAIN mergedOnce}
            = {people[i].id : i \in DOMAIN people}
       /\ \A i \in DOMAIN mergedOnce :
            mergedOnce[i] = people[FirstAt(people, mergedOnce[i].id)]
       /\ \A i, j \in DOMAIN mergedOnce :
            i < j => FirstAt(people, mergedOnce[i].id)
                       < FirstAt(people, mergedOnce[j].id)

\* a list was merged in which someone occurs twice, and two people of one
\* name have different ids
DuplicateDropped ==
  /\ mergedOnce # NotMerged
  /\ Len(mergedOnce) < Len(toPeopleArray(creditSource))
  /\ \E i, j \in DOMAIN mergedOnce :
       i # j /\ mergedOnce[i].name = mergedOnce[j].name

(***************************************************************************)
(* The theme: App is rendered with or without a stored theme, the user     *)
(* toggles it after login, the system colour scheme changes                *)
(***************************************************************************)
ThemeStores == {Undef, "light", "dark"}

SystemTheme(dark) == IF dark THEN "dark" ELSE "light"

\* the persisting effect without its `if (isManualTheme)`
PersistTheme_always(th, manual) == th

\* the effect of deps [theme, isManualTheme]: what localStorage 'theme' holds
\* after setItem('theme', theme) or removeItem('theme')
PersistTheme(th, manual) == IF manual THEN th ELSE Undef

\* the state of the pages, which the theme never touches
pageVars ==
  <<token, error, topMovies, topMoviesRequested, route, movieCache, sp, vp,
    searchReqs, pickReqs, topReqs, versionReqs, downloadReqs, imdbReqs,
    searched, tokenStore, gateError, failedCalls>>

InitTheme ==
  \E stored \in ThemeStores, dark \in BOOLEAN :
    /\ themeStore = stored
    /\ prefersDark = dark
    /\ theme = Undef
    /\ isManualTheme = FALSE
    /\ creditSource = <<>>
    /\ mergedOnce = NotMerged
    /\ mergedTwice = NotMerged
    /\ formatInput = JsUndefined
    /\ formatted = NotCalled
    /\ tvResults = <<>>
    /\ posterFetchThreshold = 0
    /\ posterCache = <<>>
    /\ pendingPosterIds = {}
    /\ posterReqs = EmptyBag
    /\ detailReqs = {}
    /\ token = ""
    /\ error = ""
    /\ topMovies = <<>>
    /\ topMoviesRequested = FALSE
    /\ route = SearchRoute("")
    /\ movieCache = [k \in {} |-> EmptyEntry]
    /\ sp = SearchPageInit("")
    /\ vp = VersionsPageInit
    /\ searchReqs = EmptyBag
    /\ pickReqs = EmptyBag
    /\ topReqs = EmptyBag
    /\ versionReqs = EmptyBag
    /\ downloadReqs = EmptyBag
    /\ imdbReqs = EmptyBag
    /\ lastEvent = Event("Init", Undef, FALSE, Undef)
    /\ searched = FALSE
    /\ tokenStore = Undef
    /\ gateError = ""
    /\ InitExtra

\* App's first render: the initializers of isManualTheme and theme, then the
\* persisting effect and the effect that follows the system
MountApp ==
  /\ theme = Undef
  /\ LET manual == themeStore \in {"light", "dark"}
         initial == IF manual THEN themeStore ELSE SystemTheme(prefersDark)
         followed == IF manual THEN initial ELSE SystemTheme(prefersDark)
     IN /\ isManualTheme' = manual
        /\ theme' = followed
        /\ themeStore' = PersistTheme(followed, manual)
  /\ lastEvent' = Event("MountApp", Undef, FALSE, Undef)
  /\ UNCHANGED <<prefersDark, pageVars, formatVars, posterVars, creditVars, extraVars>>

toggleTheme ==
  /\ theme # Undef
  /\ token # ""
  /\ isManualTheme' = TRUE
  /\ theme' = IF theme = "dark" THEN "light" ELSE "dark"
  /\ themeStore' = PersistTheme(theme', TRUE)
  /\ lastEvent' = Event("toggleTheme", Undef, FALSE, Undef)
  /\ UNCHANGED <<prefersDark, pageVars, formatVars, posterVars, creditVars, extraVars>>

\* the system colour scheme changes: handleChange, if it is listening
SystemSchemeChange ==
  /\ theme # Undef
  /\ prefersDark' = ~prefersDark
  /\ theme' = IF isManualTheme THEN theme ELSE SystemTheme(prefersDark')
  /\ themeStore' = IF isManualTheme THEN themeStore
                   ELSE PersistTheme(theme', isManualTheme)
  /\ lastEvent' = Event("SystemSchemeChange", Undef, FALSE, Undef)
  /\ UNCHANGED <<isManualTheme, pageVars, formatVars, posterVars, creditVars, extraVars>>

NextTheme ==
  \/ MountApp
  \/ toggleTheme
  \/ SystemSchemeChange
  \/ (theme # Undef /\ SaveToken(Login))
  \/ handleLogout
  \/ TopMoviesOk(GateLists)

SpecTheme == InitTheme /\ [][NextTheme]_vars

CacheLists == {<<Full("1")>>, <<Bare("2"), Nameless>>}

CacheRoutes == {SearchRoute(""), VersionsRoute("1", "Alien")}

NextCache ==
  \/ SaveToken(Login)
  \/ handleLogout
  \/ handleRestart
  \/ BrowserNavigate(CacheRoutes)
  \/ TopMoviesOk(CacheLists)
  \/ TypeInput
  \/ doSearch
  \/ SearchOk(CacheLists)
  \/ handleMovieClick
  \/ VersionsOk(GateVersions)
  \/ ImdbOk(EnrichResponses)
  \/ ImdbFail(EnrichFailures)

SpecCache == Init /\ [][NextCache]_vars

\* C20: a title that has a record in the cache has one after every step
\* (search, weekly picks, enrichment, navigation, restart, logout, login);
\* the cache is a Map keyed by String(id), so a title has one record at most.
RecordsAreKept ==
  [][\A k \in DOMAIN movieCache : k \in DOMAIN movieCache']_vars

\* the user has logged out, and the records of two titles, one of them
\* enriched, are still there
RecordsOutliveLogout ==
  /\ lastEvent.op = "handleLogout"
  /\ token = ""
  /\ DOMAIN movieCache = {"1", "2"}
  /\ movieCache["1"].imdbDetailsFetched


(***************************************************************************)
(* More properties of the enrichment, under SpecEnrich                     *)
(***************************************************************************)
\* C21: when the response of a metadata fetch that has not been cancelled
\* arrives, the record of the fetch's title is in the cache with its
\* imdbDetailsFetched flag set, whatever the response carried.
FetchedFlagIsSet ==
  [][(lastEvent'.op = "ImdbOk" /\ ~lastEvent'.cancelled)
       => /\ lastEvent'.movieId \in DOMAIN movieCache'
          /\ movieCache'[lastEvent'.movieId].imdbDetailsFetched]_vars

\* a response without synopsis, runtime or credits has just been merged into
\* a record that had none of them
EmptyResponseMerged ==
  /\ lastEvent.op = "ImdbOk"
  /\ ~lastEvent.cancelled
  /\ movieCache[lastEvent.movieId].imdbDetailsFetched
  /\ movieCache[lastEvent.movieId].synopsis = ""
  /\ movieCache[lastEvent.movieId].runtime = ""
  /\ movieCache[lastEvent.movieId].credits = <<createEmptyCredits>>


(***************************************************************************)
(* The merge of fetchImdbDetails taken alone: a cached record with any     *)
(* synopsis and credits, the effect's closure over it, and a response      *)
(***************************************************************************)
Ripley == [id |-> "nm1", name |-> "Weaver", image |-> ""]

\* the buckets a cached record may hold
CachedBuckets == {<<>>, <<Ripley>>}

\* `credits` of a cached record: absent, or the three buckets
CachedCredits ==
  {<<>>} \cup {<<[writers |-> w, directors |-> d, stars |-> st]>> :
                 w \in CachedBuckets, d \in CachedBuckets, st \in CachedBuckets}

\* a record of title 1 as the cache may hold it when the effect runs
CachedRecords ==
  {[EmptyEntry EXCEPT !.title = "Alien", !.imdbId = "tt1",
                      !.synopsis = synopsis, !.credits = credits] :
     synopsis \in {Undef, "", "Seen before"}, credits \in CachedCredits}

\* the answers of the metadata boundary: each credit list empty or not
MergeResponses ==
  {ImdbDetails(synopsis, Undef, <<>>, w, d, st, <<>>) :
     synopsis \in {Undef, " ", "In space"},
     w \in {<<>>, <<Named("O'Bannon")>>},
     d \in {<<>>, <<Named("Scott")>>},
     st \in {<<>>, <<Person("nm1", "Weaver"), Named("Skerritt")>>}}

InitMerge ==
  /\ InitBase
  /\ InitTvVars
  /\ failedCalls = NotKept
  /\ mergeCached \in CachedRecords
  /\ mergeData \in MergeResponses
  /\ mergeStored = <<>>

\* the continuation of fetchImdbDetails as far as the cache goes: the closure
\* is the one of the effect that ran on the cached record
StoreMerged ==
  /\ mergeStored = <<>>
  /\ LET cache == [k \in {"1"} |-> mergeCached]
         req == ImdbRequest(cache, "1")
         existing == GetOrEmpty(cache, req.movieId)
     IN mergeStored' = <<nextEntry(existing, req, mergeData)>>
  /\ UNCHANGED <<mergeCached, mergeData, appVars, posterVars, formatVars,
                 creditVars, themeVars, tvVars>>

NextMerge == StoreMerged

SpecMerge == InitMerge /\ [][NextMerge]_vars

Buckets == {"writers", "directors", "stars"}

\* C22: in the record the merge stores, each of writers, directors and stars
\* is the bucket normalized from the response when that is non-empty, and the
\* cached bucket otherwise (empty when the record had no credits); the synopsis
\* is the response's when that is non-empty, and the cached one otherwise (the
\* empty string when the record had none).
PerBucketMerge ==
  mergeStored # <<>>
    => LET stored == mergeStored[1]
           next == nextCredits(mergeData)
           cached == CreditsOrEmpty(mergeCached.credits)
           synopsis == Trim(nextSynopsis(mergeData))
       IN /\ stored.credits # <<>>
          /\ \A b \in Buckets :
               stored.credits[1][b] = IF next[b] # <<>> THEN next[b] ELSE cached[b]
          /\ stored.synopsis = IF synopsis # "" THEN synopsis
                               ELSE IF Truthy(mergeCached.synopsis)
                                    THEN mergeCached.synopsis ELSE ""

\* the response had writers only and a blank synopsis: the stars and the
\* synopsis stored are the cached ones
BucketKeptBesideBucketReplaced ==
  /\ mergeStored # <<>>
  /\ mergeData.writers # <<>>
  /\ mergeData.stars = <<>>
  /\ mergeData.synopsis = " "
  /\ mergeStored[1].credits[1].writers = <<[id |-> "O'Bannon", name |-> "O'Bannon", image |-> ""]>>
  /\ mergeStored[1].credits[1].stars = <<Ripley>>
  /\ mergeStored[1].synopsis = "Seen before"


(***************************************************************************)
(* Failed calls: the user searches, opens titles from the results, the     *)
(* weekly picks and by URL, downloads and restarts; every catalog call may *)
(* fail, and the calls that failed are remembered until the user acts      *)
(***************************************************************************)
RetryLists == { <<NoImdb("1"), NoImdb("2")>> }

RetryRoutes == {VersionsRoute("1", "Alien")}

InitRetry == InitBase /\ InitMergeVars /\ InitTvVars /\ failedCalls = {}

NextRetry ==
  \/ SaveToken(Login)
  \/ handleRestart
  \/ BrowserNavigate(RetryRoutes)
  \/ TopMoviesOk(RetryLists)
  \/ TopMoviesFail
  \/ TypeInput
  \/ doSearch
  \/ SearchOk(RetryLists)
  \/ SearchFail
  \/ handleMovieClick
  \/ handleTopMovie
  \/ TopMovieSearchOk(RetryLists)
  \/ TopMovieSearchFail
  \/ VersionsOk(AllVersionLists)
  \/ VersionsFail
  \/ requestDownload
  \/ confirmDownload
  \/ DownloadOk
  \/ DownloadFail

SpecRetry == InitRetry /\ [][NextRetry]_vars

\* the requests a bag gained in the step
Gained(before, after) ==
  {r \in BagToSet(after) : CopiesIn(r, after) > CopiesIn(r, before)}

\* C23, as stated: a call of the catalog or download boundary that failed,
\* its error shown, is not issued again with the same arguments before the
\* user acts: no step that runs after an await issues it.
NoAutomaticRetry ==
  [][lastEvent'.op \in Continuations
       => /\ \A r \in Gained(searchReqs, searchReqs') :
               Call("searchMovies", r.query, Undef) \notin failedCalls
          /\ \A r \in Gained(versionReqs, versionReqs') :
               r.cancelled
                 \/ Call("getVersions", r.movieId, r.title) \notin failedCalls
          /\ \A r \in Gained(downloadReqs, downloadReqs') :
               r.orphaned
                 \/ Call("downloadMovie", ToString(r.torrentId), r.movieTitle)
                      \notin failedCalls
          /\ \A r \in Gained(topReqs, topReqs') :
               r.cancelled \/ Call("getTopMovies", Undef, Undef) \notin failedCalls]_vars


(***************************************************************************)
(* More properties of the flow, under SpecFlow                             *)
(***************************************************************************)
\* the versions the catalog lists for a title
VersionsOf(id) ==
  UNION {{list[i] : i \in DOMAIN list} : list \in VersionLists(id)}

\* C24, as stated: while the versions view is not loading, every version it
\* lists and the version pending for download are versions of the title in
\* the URL.
VersionsBelongToTitle ==
  (Mounted(token, route) = "versions" /\ ~vp.loading)
    => /\ \A i \in DOMAIN vp.versions : vp.versions[i] \in VersionsOf(route.movieId)
       /\ \A i \in DOMAIN vp.pendingVersion :
            vp.pendingVersion[i] \in VersionsOf(route.movieId)


(***************************************************************************)
(* Stale searches: the user searches from the box and by URL for two       *)
(* queries, leaves the search page for a title and logs out, while         *)
(* searches are pending                                                    *)
(***************************************************************************)
StaleRoutes == {SearchRoute("q"), SearchRoute("r"), VersionsRoute("1", "Alien")}

StaleLists == { <<NoImdb("1")>>, <<Full("2")>> }

NextStale ==
  \/ SaveToken(Login)
  \/ handleLogout
  \/ BrowserNavigate(StaleRoutes)
  \/ TypeInput
  \/ doSearch
  \/ SearchOk(StaleLists)
  \/ SearchFail
  \/ VersionsOk(GateVersions)

SpecStale == Init /\ [][NextStale]_vars

OnSearch == Mounted(token, route) = "search"

AnswerAfterUnmount ==
  /\ lastEvent.op = "SearchOk"
  /\ lastEvent.cancelled
  /\ ~OnSearch


(***************************************************************************)
(* The loading flag of the enrichment, under SpecEnrich                    *)
(***************************************************************************)
\* a metadata fetch of the title shown is in flight and not cancelled
FetchInFlight ==
  /\ OnVersions
  /\ \E r \in Live(imdbReqs) : r.movieId = route.movieId

\* C26: imdbLoading is false in every state in which no metadata fetch that
\* has not been cancelled is in flight for the title shown.
LoadingOnlyWhileFetching == ~FetchInFlight => ~vp.imdbLoading

\* the view went from a title whose fetch is still in flight to a title that
\* needs none
SupersededByTitleWithoutFetch ==
  /\ OnVersions
  /\ lastEvent.op = "BrowserNavigate"
  /\ \E old \in BagToSet(imdbReqs) : old.cancelled /\ old.movieId # route.movieId
  /\ ~FetchInFlight
  /\ ~vp.imdbLoading


(***************************************************************************)
(* Weekly picks: the user logs in and out and opens a title;               *)
(* React may clean up the effects and run them again; getTopMovies         *)
(* succeeds                                                                *)
(***************************************************************************)
NextPicks ==
  \/ SaveToken(Login)
  \/ handleLogout
  \/ BrowserNavigate(GateRoutes)
  \/ RerunEffects
  \/ TopMoviesOk(GateLists)
  \/ VersionsOk(GateVersions)

SpecPicks == Init /\ [][NextPicks]_vars

\* every call in flight is answered in the end
PicksFairness ==
  /\ WF_vars(TopMoviesOk(GateLists))
  /\ WF_vars(VersionsOk(GateVersions))

SpecPicksLive == SpecPicks /\ PicksFairness

\* C27, as stated: while a token is held, the weekly picks are stored in the
\* end (or the token is given up first), whatever runs and cleanups the
\* top-movies effect goes through.
PicksEventuallyLoaded ==
  (token # "") ~> (topMovies # <<>> \/ token = "")


(***************************************************************************)
(* The confirm dialog of the TV results (HDBits, BTN) on SearchPage: the   *)
(* user searches, clicks a torrent, cancels or starts the download, and    *)
(* comes back from the download page                                       *)
(***************************************************************************)
\* a row of the results: its source, its key (torrent.id or getBtnTorrentKey),
\* its title, and whether a BTN torrent has DownloadURL and ReleaseName
Torrent(source, key, title, complete) ==
  [source |-> source, key |-> key, title |-> title, complete |-> complete]

TvTorrents ==
  { Torrent("hdbits", "101", "Show S01 1080p", TRUE),
    Torrent("btn", "9", "Show.S01.720p", TRUE),
    Torrent("btn", "7-Show", "", FALSE) }

\* what the other parts taken alone hold
TvUnchanged == UNCHANGED <<formatVars, creditVars, themeVars, mergeVars>>

\* handleTorrentClick and handleBtnTorrentClick on a row of the results; the
\* dialog is modal
handleTorrentClick ==
  /\ Mounted(token, route) = "search"
  /\ tvResults # <<>>
  /\ ~tv.confirmOpen
  /\ \E torrent \in TvTorrents :
       /\ tv' = IF tv.downloadingKey # Undef THEN tv
                ELSE [tv EXCEPT !.pendingTorrent = <<torrent>>, !.confirmOpen = TRUE]
       /\ CommitApp(On("handleTorrentClick", Undef, FALSE, Undef))
  /\ UNCHANGED <<tvDownloadReqs, posterVars>>
  /\ TvUnchanged

\* closeDialog, from Cancel or the dialog's onOpenChange(false); Cancel is
\* disabled while a download is running
closeDialog ==
  /\ Mounted(token, route) = "search"
  /\ tv.confirmOpen
  /\ tv' = IF tv.downloadingKey # Undef THEN tv
           ELSE [tv EXCEPT !.confirmOpen = FALSE, !.pendingTorrent = <<>>]
  /\ CommitApp(On("closeDialog", Undef, FALSE, Undef))
  /\ UNCHANGED <<tvDownloadReqs, posterVars>>
  /\ TvUnchanged

\* startTorrentDownload up to its await, or to its end when a BTN torrent
\* lacks its download details; the button is disabled without a pending
\* torrent and while a download is running
startTorrentDownload ==
  /\ Mounted(token, route) = "search"
  /\ tv.confirmOpen
  /\ tv.pendingTorrent # <<>>
  /\ tv.downloadingKey = Undef
  /\ LET torrent == tv.pendingTorrent[1]
         starting == On("startTorrentDownload", Undef, FALSE, Undef)
     IN IF torrent.complete
        THEN /\ tv' = [tv EXCEPT !.downloadingKey = torrent.key]
             /\ tvDownloadReqs' = tvDownloadReqs (+) One(torrent)
             /\ CommitApp([starting EXCEPT !.error = ""])
        ELSE /\ tv' = [tv EXCEPT !.pendingTorrent = <<>>, !.downloadingKey = Undef]
             /\ tvDownloadReqs' = tvDownloadReqs
             /\ CommitApp([starting EXCEPT
                             !.error = toErrorMessage("Missing BTN download details")])
  /\ UNCHANGED posterVars
  /\ TvUnchanged

\* startTorrentDownload after its await returned: the dialog closes, the app
\* goes to the download page and SearchPage unmounts with its state
TvDownloadOk ==
  \E req \in BagToSet(tvDownloadReqs) :
    /\ tvDownloadReqs' = tvDownloadReqs (-) One(req)
    /\ tv' = TvInit
    /\ tvResults' = <<>>
    /\ posterFetchThreshold' = 0
    /\ posterCache' = <<>>
    /\ pendingPosterIds' = {}
    /\ posterReqs' = CancelAll(posterReqs)
    /\ detailReqs' = detailReqs
    /\ CommitApp([On("TvDownloadOk", Undef, FALSE, Undef) EXCEPT
                    !.route = DownloadRoute(req.title)])
    /\ TvUnchanged

\* startTorrentDownload after its await threw: catch, then finally
TvDownloadFail ==
  \E req \in BagToSet(tvDownloadReqs), failure \in Failures :
    /\ tvDownloadReqs' = tvDownloadReqs (-) One(req)
    /\ tv' = [tv EXCEPT !.pendingTorrent = <<>>, !.downloadingKey = Undef]
    /\ CommitApp([On("TvDownloadFail", Undef, FALSE, failure) EXCEPT
                    !.error = toErrorMessage(ThrownMessage("Download", failure))])
    /\ UNCHANGED posterVars
    /\ TvUnchanged

\* one TV search with one result
TvDialogLists == { <<Matrix>> }

NextTv ==
  \/ SaveToken(Login)
  \/ TvSearchOk(TvDialogLists)
  \/ PosterOk
  \/ PosterFail
  \/ handleTorrentClick
  \/ closeDialog
  \/ startTorrentDownload
  \/ TvDownloadOk
  \/ TvDownloadFail
  \/ startAnotherSearch

SpecTv == Init /\ [][NextTv]_vars

\* C28, as stated: whenever the confirm dialog is open a pending torrent is
\* set; at most one TV download is in flight; and when a download attempt
\* has completed, with either outcome, downloadingKey and pendingTorrent are
\* cleared and the dialog is closed.
TvDialogConsistent ==
  /\ tv.confirmOpen => tv.pendingTorrent # <<>>
  /\ BagCardinality(tvDownloadReqs) <= 1
  /\ lastEvent.op \in {"TvDownloadOk", "TvDownloadFail"}
       => /\ tv.downloadingKey = Undef
          /\ tv.pendingTorrent = <<>>
          /\ ~tv.confirmOpen

\* the same without the dialog's part: one download at a time, and a completed
\* attempt clears downloadingKey and pendingTorrent
TvDownloadCleared ==
  /\ BagCardinality(tvDownloadReqs) <= 1
  /\ lastEvent.op \in {"TvDownloadOk", "TvDownloadFail"}
       => /\ tv.downloadingKey = Undef
          /\ tv.pendingTorrent = <<>>

\* a failed download has left the dialog open
DialogOpenAfterFailure ==
  /\ lastEvent.op = "TvDownloadFail"
  /\ tv.confirmOpen


(***************************************************************************)
(* The poster lookups of one TV search and of the next, with more results  *)
(* than one batch                                                          *)
(***************************************************************************)
\* the IntersectionObserver of the row after the last eligible one fires:
\* requestMorePosters raises the threshold and the poster effect runs again
requestMorePosters ==
  LET threshold == Min(posterFetchThreshold + POSTER_BATCH_SIZE, Len(tvResults))
      next == PosterEffect(tvResults, threshold, posterCache, PosterState)
  IN /\ Mounted(token, route) = "search"
     /\ tvResults # <<>>
     /\ posterFetchThreshold >= POSTER_BATCH_SIZE
     /\ posterFetchThreshold < Len(tvResults)
     /\ posterFetchThreshold' = threshold
     /\ pendingPosterIds' = next.pending
     /\ posterReqs' = next.reqs
     /\ BagCardinality(posterReqs') <= MaxInflight
     /\ UNCHANGED <<tvResults, posterCache, detailReqs, formatVars, creditVars,
                    themeVars, appVars, extraVars>>

Seven == JsString(<<"7">>)
Seventy == JsNumber(70)

\* two shows in one batch, and three shows over six torrents
PosterLists ==
  { <<Matrix, Seven>>,
    <<Matrix, Matrix, Matrix, Seven, Seven, Seventy>> }

NextPosters ==
  \/ SaveToken(Login)
  \/ TvSearch
  \/ TvSearchOk(PosterLists)
  \/ requestMorePosters
  \/ PosterOk
  \/ PosterFail

SpecPosters == Init /\ [][NextPosters]_vars

\* the lookups of an id that were sent and not yet answered, cancelled or not
LookupsOf(id) ==
  BagCardinality([r \in {q \in BagToSet(posterReqs) : q.imdbId = id}
                    |-> CopiesIn(r, posterReqs)])

\* C29, as stated: no id is looked up more than once, so no id has two
\* lookups out at a time; and a lookup that is out and was not cancelled is
\* of an id that has no entry in posterCache.
PosterLookupsNotDuplicated ==
  /\ \A r \in BagToSet(posterReqs) : LookupsOf(r.imdbId) <= 1
  /\ \A r \in Live(posterReqs) : r.imdbId \notin DOMAIN posterCache

\* the part about later batches: a lookup that is out and was not cancelled
\* is of an id that has no entry in posterCache, and is the only such lookup
SettledIdsAreExcluded ==
  \A r \in Live(posterReqs) :
    /\ r.imdbId \notin DOMAIN posterCache
    /\ CopiesIn(r, posterReqs) = 1

\* the part about the cache: an entry of status success stays
SuccessIsKept ==
  [][\A id \in DOMAIN posterCache :
       posterCache[id] = "success"
         => id \in DOMAIN posterCache' /\ posterCache'[id] = "success"]_vars

\* the first answer of a batch of two has cancelled the other lookup, and
\* the same id is looked up again
LookedUpAgain ==
  /\ posterCache # <<>>
  /\ \E r \in BagToSet(posterReqs) : r.cancelled /\ LookupsOf(r.imdbId) = 2


(***************************************************************************)
(* The confirm dialog of VersionsPage while downloadMovie is awaited       *)
(***************************************************************************)
\* the downloads awaited by the page that is mounted
LiveDownloads == {r \in BagToSet(downloadReqs) : ~r.orphaned}

\* the download whose continuation ran in this step: it is gone, and not
\* because its page was left
Completed(before, after) ==
  {r \in BagToSet(before) : /\ CopiesIn(r, after) < CopiesIn(r, before)
                            /\ BagCardinality(after) < BagCardinality(before)}

\* C30, as stated: while a download of the mounted page is awaited, the
\* pending version is the one that was sent (not cleared, not replaced) and
\* no other download of the page is awaited; when the download completes the
\* submitting flag is false, the pending version cleared if it succeeded and
\* kept if it failed.
SubmissionGuard ==
  [][/\ \A r \in {q \in BagToSet(downloadReqs') : ~q.orphaned} :
          /\ vp'.isSubmitting
          /\ vp'.pendingVersion = <<r.torrentId>>
          /\ BagCardinality([q \in {x \in BagToSet(downloadReqs') : ~x.orphaned}
                                |-> CopiesIn(q, downloadReqs')]) = 1
     /\ \A r \in Completed(downloadReqs, downloadReqs') :
          ~r.orphaned =>
            /\ lastEvent'.op \in {"DownloadOk", "DownloadFail"}
            /\ ~vp'.isSubmitting
            /\ lastEvent'.op = "DownloadOk" => vp'.pendingVersion = <<>>
            /\ lastEvent'.op = "DownloadFail"
                 => vp'.pendingVersion = <<r.torrentId>>]_vars

\* a download has failed: the dialog is still open on the version, and can
\* be dismissed or confirmed again
FailedDownloadKeepsVersion ==
  /\ lastEvent.op = "DownloadFail"
  /\ Mounted(token, route) = "versions"
  /\ vp.pendingVersion # <<>>
  /\ ~vp.isSubmitting
  /\ LiveDownloads = {}
  /\ error # ""

====
